---- MODULE Spec2Model ----
(***************************************************************************)
(* Model of the thumbnail pipeline of bin/server-runner.js: the gallery    *)
(* cache (getCachedGalleryData, invalidateCache), the file watcher, the    *)
(* orphan cleanup and the background generation runs                       *)
(* (generateThumbnailsInBackground / generateThumbnailFast).               *)
(*                                                                         *)
(* A media file is identified by its relative path.  Paths are the         *)
(* integers 1..ManyFiles; the integer order is the order that the           *)
(* comparator of getCachedGalleryData (directory, then name) gives them.   *)
(* Every await of the JavaScript code is a point where another handler     *)
(* may run, so every action below is the code between two awaits.          *)
(*                                                                         *)
(* THUMBNAILS_DIR holds the full thumbnails (thumbs), and may hold tiny     *)
(* previews (tinys) and files of other names (strays) left by earlier      *)
(* sessions.  File names are sequences of character codes; the key of a    *)
(* path is computed as the code computes it (UTF-8, then base64), and the  *)
(* cleanup decodes names as Buffer.from(name, 'base64') does.              *)
(*                                                                         *)
(* README.md and WARP.md document two more requests, POST                  *)
(* /api/viewport-items and POST /api/pause-thumbnails.  setupServer        *)
(* registers neither route; ReportViewport and TogglePause model the       *)
(* requests as the server treats them (no state change) and record what    *)
(* the client asked for in vpOrder, vpJobs and pauseWanted.                *)
(***************************************************************************)
EXTENDS Integers, Sequences, FiniteSets, TLC

\* ---------------------------------------------------------------- bounds
MaxFiles == 7
ColdFiles == 4
MaxRefreshes == 2
MaxHits == 1
MaxInFlight == 2
MaxTicks == 2
MaxWatchEvents == 1
MaxViewportCalls == 1
MaxPauseCalls == 1
MaxPending == 800
ManyFiles == 11
StoreFiles == 3
MaxClients == 2
MaxEvents == 3

\* ------------------------------------------------------ program constants
CACHE_DURATION == 30000
BatchLarge == 10
BatchMedium == 6
BatchSmall == 3
LargeThreshold == 500
MediumThreshold == 100
broadcastRatio == 50
MinBroadcastInterval == 10

Paths == 1..ManyFiles
\* path 1 is a video (placeholder thumbnail, the source is not read),
\* the other paths are images
VideoPaths == {1}
NULL == [none |-> TRUE]
\* the response objects of the GET /api/scan-progress requests
Clients == 1..MaxClients
\* the clock advances in steps of half the cache duration, so that ages
\* below, equal to and above CACHE_DURATION all occur
TimeStep == CACHE_DURATION \div 2
StartTime == 2 * CACHE_DURATION

VARIABLES
    files,        \* media files present under scanDir
    thumbs,       \* paths whose full thumbnail {key}.jpg is in THUMBNAILS_DIR
    galleryCache, \* [data, lastScan, isStale]
    now,          \* Date.now()
    ticks,        \* number of clock steps taken
    reqs,         \* in-flight getCachedGalleryData calls, per slot
    refreshes,    \* number of getCachedGalleryData calls that went on to scan
    hits,         \* number of getCachedGalleryData calls answered from the cache
    runs,         \* generateThumbnailsInBackground invocations, in start order
    genState,     \* thumbnailGenerationState
    readyCount,   \* thumbnail_ready events published, per path
    lastReturned, \* [call, data, hit]: the last value returned by getCachedGalleryData
    seen,         \* the snapshots returned since the last invalidateCache call
    watchEvents,  \* number of file-watcher events so far
    vpCalls,      \* number of POST /api/viewport-items requests so far
    vpOrder,      \* <<run, a, b>>: a was reported visible while a and b were both queued
    vpJobs,       \* <<run, a>>: a was reported visible before it was dispatched
    pauseCalls,   \* number of POST /api/pause-thumbnails requests so far
    pauseWanted,  \* the pause state the client has toggled to
    invalidations, \* the reasons of the cacheInvalidated events published, in order
    tinys,        \* paths whose tiny preview {key}_tiny.jpg is in THUMBNAILS_DIR
    strays,       \* the other file names in THUMBNAILS_DIR
    cleanups,     \* cleanupOrphanedThumbnails calls in progress, per slot
    pendingCount, \* pendingImages.length of a generateThumbnailsInBackground call
    batchSize,    \* the batch size chosen for it (0: not chosen yet)
    sseClients,   \* the responses in the Set sseClients, in insertion order
    conns,        \* the state of every SSE response object
    received,     \* what has been written to every SSE response, in order
    published,    \* number of broadcastToClients calls so far
    lastPublish,  \* [delivered, removed] of the last broadcastToClients call
    arg,          \* the argument of a function applied by itself (NULL: none)
    ret,          \* its result (NULL: not applied yet)
    partials,     \* files with a thumbnail path at which an incomplete file lies
    writing,      \* files whose sharp(...).toFile call is pending
    lastCheck     \* what the last hasThumbnail call found and returned (or NULL)

vars == <<files, thumbs, galleryCache, now, ticks, reqs, refreshes, hits, runs, genState,
          readyCount, lastReturned, seen, watchEvents, vpCalls, vpOrder,
          vpJobs, pauseCalls, pauseWanted, invalidations, tinys, strays, cleanups,
          pendingCount, batchSize, sseClients, conns, received, published, lastPublish,
          arg, ret, partials, writing, lastCheck>>

cacheVars == <<galleryCache, reqs, refreshes, hits, lastReturned, seen>>
ghostVars == <<vpCalls, vpOrder, vpJobs, pauseCalls, pauseWanted>>
storeVars == <<tinys, strays, cleanups>>
pureVars == <<pendingCount, batchSize>>
sseVars == <<sseClients, conns, received, published, lastPublish>>
fnVars == <<arg, ret>>
writeVars == <<partials, writing, lastCheck>>
auxVars == <<sseVars, fnVars, writeVars>>

\* ---------------------------------------------------------------- helpers
Max(a, b) == IF a > b THEN a ELSE b

\* Math.round(x / y * 100) for x >= 0, y > 0
RoundPercent(x, y) == (200 * x + y) \div (2 * y)

MinOf(S) == CHOOSE x \in S : \A y \in S : x <= y

RECURSIVE SortedSeq(_)
\* Array.prototype.sort with the (directory, name) comparator
SortedSeq(S) == IF S = {} THEN << >>
                ELSE <<MinOf(S)>> \o SortedSeq(S \ {MinOf(S)})

Terminal == {"done", "cached", "failed"}
Succeeded == {"done", "cached"}

\* a batch size whose tiers start at the thresholds themselves
BatchSizeForInclusive(n) == IF n >= LargeThreshold THEN BatchLarge
                            ELSE IF n >= MediumThreshold THEN BatchMedium
                            ELSE BatchSmall

\* the adaptive batch size
BatchSizeFor(n) == IF n > LargeThreshold THEN BatchLarge
                   ELSE IF n > MediumThreshold THEN BatchMedium
                   ELSE BatchSmall

BroadcastIntervalFor(n) == Max(MinBroadcastInterval, n \div broadcastRatio)

\* the indexes of pendingImages.slice(i, i + batchSize), i counted from 0
BatchOf(run) == {k \in 1..Len(run.jobs) :
                    k > run.i /\ k <= run.i + BatchSizeFor(Len(run.jobs))}

ActiveRuns == {r \in 1..Len(runs) : runs[r].pc # "done"}
InFlight == {s \in 1..MaxInFlight : reqs[s] # NULL}

\* ---------------------------------------------------------------- encoding
\* A string is the sequence of its character codes.
\* ".jpg", ".mp4", "_tiny"
Jpg == <<46, 106, 112, 103>>
Mp4 == <<46, 109, 112, 52>>
TinySuffix == <<95, 116, 105, 110, 121>>

\* the relative path of media file p: "a.mp4", "ab.jpg", "abc.jpg", ...
relativePath(p) == [i \in 1..p |-> 96 + i] \o (IF p \in VideoPaths THEN Mp4 ELSE Jpg)

RECURSIVE Utf8Encode(_)
\* Buffer.from(string): the UTF-8 bytes of a well-formed string, given as
\* its code points (a surrogate pair is one code point above U+FFFF)
Utf8Encode(str) ==
    IF str = << >> THEN << >>
    ELSE LET c == Head(str)
             bytes == IF c < 128 THEN <<c>>
                      ELSE IF c < 2048 THEN <<192 + c \div 64, 128 + (c % 64)>>
                      ELSE IF c < 65536
                           THEN <<224 + c \div 4096, 128 + ((c \div 64) % 64), 128 + (c % 64)>>
                      ELSE <<240 + c \div 262144, 128 + ((c \div 4096) % 64),
                             128 + ((c \div 64) % 64), 128 + (c % 64)>>
         IN bytes \o Utf8Encode(Tail(str))

IsContinuation(bytes, i) == i <= Len(bytes) /\ bytes[i] >= 128 /\ bytes[i] < 192

\* buffer.toString('latin1'): every byte is a character
Latin1Decode(bytes) == bytes

RECURSIVE Utf8Decode(_)
\* buffer.toString('utf8'): a byte that starts no well-formed sequence becomes
\* U+FFFD
Utf8Decode(bytes) ==
    IF bytes = << >> THEN << >>
    ELSE LET b == Head(bytes)
         IN IF b < 128 THEN <<b>> \o Utf8Decode(Tail(bytes))
            ELSE IF b >= 194 /\ b < 224 /\ IsContinuation(bytes, 2)
                 THEN <<(b - 192) * 64 + (bytes[2] - 128)>>
                          \o Utf8Decode(SubSeq(bytes, 3, Len(bytes)))
            ELSE IF b >= 224 /\ b < 240 /\ IsContinuation(bytes, 2) /\ IsContinuation(bytes, 3)
                    /\ (b - 224) * 4096 + (bytes[2] - 128) * 64 >= 2048
                    /\ (b - 224) * 4096 + (bytes[2] - 128) * 64 \notin 55296..57343
                 THEN <<(b - 224) * 4096 + (bytes[2] - 128) * 64 + (bytes[3] - 128)>>
                          \o Utf8Decode(SubSeq(bytes, 4, Len(bytes)))
            ELSE IF b >= 240 /\ b < 245 /\ IsContinuation(bytes, 2) /\ IsContinuation(bytes, 3)
                    /\ IsContinuation(bytes, 4)
                    /\ (b - 240) * 262144 + (bytes[2] - 128) * 4096 \in 65536..1114111
                 THEN <<(b - 240) * 262144 + (bytes[2] - 128) * 4096
                            + (bytes[3] - 128) * 64 + (bytes[4] - 128)>>
                          \o Utf8Decode(SubSeq(bytes, 5, Len(bytes)))
            ELSE <<65533>> \o Utf8Decode(Tail(bytes))

\* the base64 alphabet
Base64Char(v) == IF v < 26 THEN 65 + v
                 ELSE IF v < 52 THEN 71 + v
                 ELSE IF v < 62 THEN v - 4
                 ELSE IF v = 62 THEN 43
                 ELSE 47

\* the value of a character for the decoder, which also accepts the URL-safe
\* '-' and '_'; 64: not a base64 character
Base64Value(c) == IF c >= 65 /\ c <= 90 THEN c - 65
                  ELSE IF c >= 97 /\ c <= 122 THEN c - 71
                  ELSE IF c >= 48 /\ c <= 57 THEN c + 4
                  ELSE IF c = 43 \/ c = 45 THEN 62
                  ELSE IF c = 47 \/ c = 95 THEN 63
                  ELSE 64

RECURSIVE Base64Encode(_)
\* buffer.toString('base64')
Base64Encode(bytes) ==
    IF bytes = << >> THEN << >>
    ELSE IF Len(bytes) = 1
         THEN <<Base64Char(bytes[1] \div 4), Base64Char((bytes[1] % 4) * 16), 61, 61>>
    ELSE IF Len(bytes) = 2
         THEN <<Base64Char(bytes[1] \div 4),
                Base64Char((bytes[1] % 4) * 16 + bytes[2] \div 16),
                Base64Char((bytes[2] % 16) * 4), 61>>
    ELSE <<Base64Char(bytes[1] \div 4),
           Base64Char((bytes[1] % 4) * 16 + bytes[2] \div 16),
           Base64Char((bytes[2] % 16) * 4 + bytes[3] \div 64),
           Base64Char(bytes[3] % 64)>> \o Base64Encode(SubSeq(bytes, 4, Len(bytes)))

RECURSIVE Sextets(_)
\* the decoder's reading of its input: it stops at the first '=' and skips
\* every other character that is outside the alphabet
Sextets(str) ==
    IF str = << >> \/ Head(str) = 61 THEN << >>
    ELSE IF Base64Value(Head(str)) = 64 THEN Sextets(Tail(str))
    ELSE <<Base64Value(Head(str))>> \o Sextets(Tail(str))

RECURSIVE Octets(_)
Octets(v) ==
    IF Len(v) < 2 THEN << >>
    ELSE IF Len(v) = 2 THEN <<v[1] * 4 + v[2] \div 16>>
    ELSE IF Len(v) = 3 THEN <<v[1] * 4 + v[2] \div 16, (v[2] % 16) * 16 + v[3] \div 4>>
    ELSE <<v[1] * 4 + v[2] \div 16, (v[2] % 16) * 16 + v[3] \div 4, (v[3] % 4) * 64 + v[4]>>
             \o Octets(SubSeq(v, 5, Len(v)))

\* Buffer.from(string, 'base64'): it never throws
Base64Decode(str) == Octets(Sextets(str))

EndsWith(str, suffix) ==
    /\ Len(str) >= Len(suffix)
    /\ SubSeq(str, Len(str) - Len(suffix) + 1, Len(str)) = suffix

\* the positions at which pattern occurs in str
Occurrences(str, pattern) ==
    {i \in 1..(Len(str) - Len(pattern) + 1) : SubSeq(str, i, i + Len(pattern) - 1) = pattern}

\* str.replace(pattern, ''): the first occurrence is removed
RemoveFirst(str, pattern) ==
    IF Occurrences(str, pattern) = {} THEN str
    ELSE LET i == MinOf(Occurrences(str, pattern))
         IN SubSeq(str, 1, i - 1) \o SubSeq(str, i + Len(pattern), Len(str))

\* Buffer.from(relativePath).toString('base64')
thumbnailKey(str) == Base64Encode(Utf8Encode(str))

\* the key of a media file
Key(p) == thumbnailKey(relativePath(p))
thumbnailName(p) == Key(p) \o Jpg
tinyName(p) == Key(p) \o TinySuffix \o Jpg

\* originalPath of cleanupOrphanedThumbnails
originalPath(thumbnailFile) == Utf8Decode(Base64Decode(RemoveFirst(thumbnailFile, Jpg)))

\* fs.access(path.join(scanDir, originalPath)) resolves: the empty path and
\* "." join to scanDir itself
SourceExists(path) ==
    \/ path \in {<< >>, <<46>>}
    \/ \E p \in files : path = relativePath(p)

\* ------------------------------------------------------------------- cache
\* a validity test that still accepts an age of exactly CACHE_DURATION
CacheValidInclusive(cache, t) == /\ cache.data # NULL
                                 /\ ~cache.isStale
                                 /\ (t - cache.lastScan) <= CACHE_DURATION

\* the validity test of getCachedGalleryData
CacheValid(cache, t) == /\ cache.data # NULL
                        /\ ~cache.isStale
                        /\ (t - cache.lastScan) < CACHE_DURATION

\* generateThumbnailsInBackground up to its first await: the state is reset,
\* published, and the jobs of the first batch run up to their fs.access
NewRun(pending) ==
    LET jobs == SortedSeq(pending)
        n == Len(jobs)
    IN [jobs |-> jobs,
        i |-> 0,
        st |-> [k \in 1..n |-> IF k <= BatchSizeFor(n) THEN "access" ELSE "queued"],
        processedCount |-> 0,
        errorCount |-> 0,
        lastBroadcast |-> 0,
        pc |-> "batch",
        final |-> NULL]

InitialGenState(n) ==
    [isGenerating |-> TRUE, total |-> n, completed |-> 0, currentFile |-> 0, progress |-> 0]

InitRest ==
    /\ galleryCache = [data |-> NULL, lastScan |-> 0, isStale |-> TRUE]
    /\ now = StartTime
    /\ ticks = 0
    /\ reqs = [s \in 1..MaxInFlight |-> NULL]
    /\ refreshes = 0
    /\ hits = 0
    /\ runs = << >>
    /\ genState = [isGenerating |-> FALSE, total |-> 0, completed |-> 0,
                   currentFile |-> 0, progress |-> 0]
    /\ readyCount = [p \in Paths |-> 0]
    /\ lastReturned = NULL
    /\ seen = {}
    /\ watchEvents = 0
    /\ vpCalls = 0
    /\ vpOrder = {}
    /\ vpJobs = {}
    /\ pauseCalls = 0
    /\ pauseWanted = FALSE
    /\ invalidations = << >>
    /\ cleanups = [s \in 1..MaxInFlight |-> NULL]
    /\ sseClients = << >>
    /\ conns = [c \in Clients |-> "new"]
    /\ received = [c \in Clients |-> << >>]
    /\ published = 0
    /\ lastPublish = NULL

\* no function is applied by itself
NoArg ==
    /\ arg = NULL
    /\ ret = NULL

\* no thumbnail is being written and none was left incomplete
NoWrite ==
    /\ partials = {}
    /\ writing = {}
    /\ lastCheck = NULL

\* THUMBNAILS_DIR holds nothing but the full thumbnails
NoExtras ==
    /\ tinys = {}
    /\ strays = {}

\* no batch size is being computed apart from the runs
NoCall ==
    /\ pendingCount = 0
    /\ batchSize = 0

\* the server started on a directory of ColdFiles media files without stored
\* thumbnails
Init ==
    /\ InitRest
    /\ NoArg
    /\ NoWrite
    /\ files = 1..ColdFiles
    /\ thumbs = {}
    /\ NoExtras
    /\ NoCall

\* the same directory with the thumbnails stored by an earlier session, except
\* that of path 1
InitWarm ==
    /\ InitRest
    /\ NoArg
    /\ NoWrite
    /\ files = 1..ColdFiles
    /\ thumbs = files \ {1}
    /\ NoExtras
    /\ NoCall

\* a directory of MaxFiles media files without stored thumbnails: the
\* generation run has three batches
InitFull ==
    /\ InitRest
    /\ NoArg
    /\ NoWrite
    /\ files = 1..MaxFiles
    /\ thumbs = {}
    /\ NoExtras
    /\ NoCall

\* time passes
Tick ==
    /\ ticks < MaxTicks
    /\ ticks' = ticks + 1
    /\ now' = now + TimeStep
    /\ UNCHANGED <<files, thumbs, cacheVars, runs, genState, readyCount,
                   watchEvents, ghostVars, invalidations, storeVars, pureVars, auxVars>>

\* an invalidation that also drops the cached snapshot
InvalidatedAndCleared(cache) == [cache EXCEPT !.isStale = TRUE, !.data = NULL, !.lastScan = 0]

\* galleryCache after invalidateCache(reason)
Invalidated(cache) == [cache EXCEPT !.isStale = TRUE]

\* the events published after invalidateCache(reason): one cacheInvalidated
\* event carrying the reason
Published(reason) == Append(invalidations, reason)

\* getCachedGalleryData, from its call to its first await (or its return);
\* stale: invalidateCache was called just before (POST /api/rescan)
EnterGetCached(stale) ==
    LET cache == IF stale THEN Invalidated(galleryCache) ELSE galleryCache
        known == IF stale THEN {} ELSE seen
    IN /\ galleryCache' = cache
       /\ IF CacheValid(cache, now)
          THEN /\ hits < MaxHits
               /\ hits' = hits + 1
               /\ lastReturned' = [call |-> now, data |-> cache.data, hit |-> TRUE]
               /\ seen' = known \cup {cache.data}
               /\ UNCHANGED <<reqs, refreshes>>
          ELSE /\ refreshes < MaxRefreshes
               /\ refreshes' = refreshes + 1
               /\ InFlight # 1..MaxInFlight
               /\ LET s == MinOf((1..MaxInFlight) \ InFlight)
                  IN reqs' = [reqs EXCEPT ![s] =
                                 [now |-> now, pc |-> "cleanup", images |-> {}]]
               /\ seen' = known
               /\ UNCHANGED <<lastReturned, hits>>

\* GET /api/gallery
GetGallery ==
    /\ EnterGetCached(FALSE)
    /\ UNCHANGED <<files, thumbs, now, ticks, runs, genState, readyCount,
                   watchEvents, ghostVars, invalidations, storeVars, pureVars, auxVars>>

\* POST /api/rescan: invalidateCache, then getCachedGalleryData
PostRescan ==
    /\ EnterGetCached(TRUE)
    /\ invalidations' = Published([kind |-> "Manual rescan", file |-> 0])
    /\ UNCHANGED <<files, thumbs, now, ticks, runs, genState, readyCount,
                   watchEvents, ghostVars, storeVars, pureVars, auxVars>>

\* the test of cleanupOrphanedThumbnails on a directory entry: the name ends
\* with .jpg and fs.access of the decoded path fails
Orphaned(thumbnailFile) ==
    /\ EndsWith(thumbnailFile, Jpg)
    /\ ~SourceExists(originalPath(thumbnailFile))

\* cleanupOrphanedThumbnails when no other handler runs during the call: the
\* entries of THUMBNAILS_DIR that pass the test are unlinked
Cleanup(s) ==
    /\ reqs[s] # NULL
    /\ reqs[s].pc = "cleanup"
    /\ cleanups[s] = NULL
    /\ thumbs' = {p \in thumbs : ~Orphaned(thumbnailName(p))}
    /\ tinys' = {p \in tinys : ~Orphaned(tinyName(p))}
    /\ strays' = {name \in strays : ~Orphaned(name)}
    /\ reqs' = [reqs EXCEPT ![s].pc = "scan"]
    /\ UNCHANGED <<files, galleryCache, now, ticks, refreshes, hits, runs, genState,
                   readyCount, lastReturned, seen, watchEvents, ghostVars, invalidations,
                   cleanups, pureVars, auxVars>>

\* ------------------------------------------ cleanup, one await at a time
\* a directory entry of THUMBNAILS_DIR: the full thumbnail or the tiny preview
\* of a path, or a file of another name
FullEntry(p) == [kind |-> "full", path |-> p, name |-> thumbnailName(p)]
TinyEntry(p) == [kind |-> "tiny", path |-> p, name |-> tinyName(p)]
StrayEntry(name) == [kind |-> "stray", path |-> 0, name |-> name]

InStore(e) == \/ e.kind = "full" /\ e.path \in thumbs
              \/ e.kind = "tiny" /\ e.path \in tinys
              \/ e.kind = "stray" /\ e.name \in strays

RECURSIVE SeqOf(_)
SeqOf(S) == IF S = {} THEN << >>
            ELSE LET x == CHOOSE y \in S : TRUE IN <<x>> \o SeqOf(S \ {x})

\* fs.readdir(THUMBNAILS_DIR), without the names the loop skips at once
\* because they do not end with .jpg
ReadDir ==
    LET fulls == SortedSeq(thumbs)
        tinies == SortedSeq(tinys)
        others == SeqOf(strays)
        all == [k \in 1..Len(fulls) |-> FullEntry(fulls[k])]
               \o [k \in 1..Len(tinies) |-> TinyEntry(tinies[k])]
               \o [k \in 1..Len(others) |-> StrayEntry(others[k])]
    IN SelectSeq(all, LAMBDA e : EndsWith(e.name, Jpg))

\* a count that also includes the unlink calls that were rejected
CleanedAnyway(c, removed) == c.cleanedCount + 1

\* cleanedCount after fs.unlink: a rejected unlink throws past cleanedCount++
Cleaned(c, removed) == IF removed THEN c.cleanedCount + 1 ELSE c.cleanedCount

\* cleanupOrphanedThumbnails: fs.readdir resolved
CleanupList(s) ==
    /\ reqs[s] # NULL
    /\ reqs[s].pc = "cleanup"
    /\ cleanups[s] = NULL
    /\ cleanups' = [cleanups EXCEPT ![s] =
                       [todo |-> ReadDir, pc |-> "access", cleanedCount |-> 0, unlinked |-> {}]]
    /\ UNCHANGED <<files, thumbs, tinys, strays, cacheVars, now, ticks, runs, genState,
                   readyCount, watchEvents, ghostVars, invalidations, pureVars, auxVars>>

\* fs.access of the decoded path answered
CleanupAccess(s) ==
    /\ cleanups[s] # NULL
    /\ cleanups[s].pc = "access"
    /\ cleanups[s].todo # << >>
    /\ cleanups' = IF Orphaned(Head(cleanups[s].todo).name)
                   THEN [cleanups EXCEPT ![s].pc = "unlink"]
                   ELSE [cleanups EXCEPT ![s].todo = Tail(@)]
    /\ UNCHANGED <<files, thumbs, tinys, strays, cacheVars, now, ticks, runs, genState,
                   readyCount, watchEvents, ghostVars, invalidations, pureVars, auxVars>>

\* fs.unlink of the entry answered: resolved if the entry was still there
CleanupUnlink(s) ==
    /\ cleanups[s] # NULL
    /\ cleanups[s].pc = "unlink"
    /\ LET e == Head(cleanups[s].todo)
           removed == InStore(e)
       IN /\ thumbs' = IF e.kind = "full" THEN thumbs \ {e.path} ELSE thumbs
          /\ tinys' = IF e.kind = "tiny" THEN tinys \ {e.path} ELSE tinys
          /\ strays' = IF e.kind = "stray" THEN strays \ {e.name} ELSE strays
          /\ cleanups' = [cleanups EXCEPT
                             ![s].todo = Tail(@),
                             ![s].pc = "access",
                             ![s].cleanedCount = Cleaned(cleanups[s], removed),
                             ![s].unlinked = IF removed THEN @ \cup {e} ELSE @]
    /\ UNCHANGED <<files, cacheVars, now, ticks, runs, genState,
                   readyCount, watchEvents, ghostVars, invalidations, pureVars, auxVars>>

\* the loop is over: cleanedCount is returned
CleanupReturn(s) ==
    /\ cleanups[s] # NULL
    /\ cleanups[s].pc = "access"
    /\ cleanups[s].todo = << >>
    /\ cleanups' = [cleanups EXCEPT ![s].pc = "returned"]
    /\ reqs' = [reqs EXCEPT ![s].pc = "scan"]
    /\ UNCHANGED <<files, thumbs, tinys, strays, galleryCache, refreshes, hits,
                   lastReturned, seen, now, ticks, runs, genState,
                   readyCount, watchEvents, ghostVars, invalidations, pureVars, auxVars>>

\* scanDirectory(scanDir, true)
Scan(s) ==
    /\ reqs[s] # NULL
    /\ reqs[s].pc = "scan"
    /\ reqs' = [reqs EXCEPT ![s].pc = "check", ![s].images = files]
    /\ UNCHANGED <<files, thumbs, galleryCache, now, ticks, refreshes, hits, runs, genState,
                   readyCount, lastReturned, seen, watchEvents, ghostVars, invalidations, storeVars, pureVars, auxVars>>

\* the snapshot assembled by getCachedGalleryData
Snapshot(images, t) ==
    [totalImages |-> Cardinality(images),
     ready |-> [p \in images |-> p \in thumbs],
     lastScan |-> t,
     pendingThumbnails |-> Cardinality(images \ thumbs)]

\* the hasThumbnail pass, the cache update, the start of the generation run
\* and the return of getCachedGalleryData
FinishRefresh(s) ==
    /\ reqs[s] # NULL
    /\ reqs[s].pc = "check"
    /\ LET images == reqs[s].images
           pending == images \ thumbs
           result == Snapshot(images, reqs[s].now)
       IN /\ galleryCache' = [data |-> result, lastScan |-> reqs[s].now, isStale |-> FALSE]
          /\ lastReturned' = [call |-> reqs[s].now, data |-> result, hit |-> FALSE]
          /\ IF pending # {}
             THEN /\ runs' = Append(runs, NewRun(pending))
                  /\ genState' = InitialGenState(Cardinality(pending))
             ELSE UNCHANGED <<runs, genState>>
    /\ seen' = seen \cup {Snapshot(reqs[s].images, reqs[s].now)}
    /\ reqs' = [reqs EXCEPT ![s] = NULL]
    /\ UNCHANGED <<files, thumbs, now, ticks, refreshes, hits, readyCount, watchEvents, ghostVars, invalidations, storeVars, pureVars, auxVars>>

\* --------------------------------------------------------------- scheduler
\* shouldBroadcast, evaluated after processedCount++
ShouldBroadcast(run) ==
    (run.processedCount + 1 - run.lastBroadcast) >= BroadcastIntervalFor(Len(run.jobs))

\* a callback that does not count the job it ran
AfterSkipped(run, k) == run

\* the bookkeeping of the batch callback after generateThumbnailFast returned
AfterSuccess(run, k) ==
    [run EXCEPT !.processedCount = @ + 1,
                !.lastBroadcast = IF ShouldBroadcast(run) THEN run.processedCount + 1 ELSE @]

ProgressState(run, k) ==
    LET done == run.processedCount + 1 + run.errorCount
    IN [genState EXCEPT !.completed = done,
                        !.progress = RoundPercent(done, genState.total),
                        !.currentFile = run.jobs[k]]

\* a failure that is also counted by the batch-level handler
AfterFailureTwice(run, k) == [run EXCEPT !.errorCount = @ + 2]

\* the catch branch of the batch callback
AfterFailure(run, k) == [run EXCEPT !.errorCount = @ + 1]

\* generateThumbnailFast: fs.access answered
JobAccess(r, k) ==
    /\ r \in 1..Len(runs)
    /\ k \in 1..Len(runs[r].jobs)
    /\ runs[r].st[k] = "access"
    /\ IF runs[r].jobs[k] \in thumbs
       THEN /\ runs' = [runs EXCEPT ![r] = [AfterSuccess(@, k) EXCEPT !.st[k] = "cached"]]
            /\ genState' = IF ShouldBroadcast(runs[r]) THEN ProgressState(runs[r], k)
                           ELSE genState
       ELSE /\ runs' = [runs EXCEPT ![r].st[k] = "writing"]
            /\ UNCHANGED genState
    /\ UNCHANGED <<files, thumbs, cacheVars, now, ticks, readyCount, watchEvents, ghostVars, invalidations, storeVars, pureVars, auxVars>>

\* thumbnail_ready published by the job and once more by its caller
ReadyPublishedTwice(p) == [readyCount EXCEPT ![p] = @ + 2]

\* generateThumbnailFast after the write: one thumbnail_ready event for p
ReadyPublished(p) == [readyCount EXCEPT ![p] = @ + 1]

\* generateThumbnailFast: sharp(...).toFile resolved
JobWriteOk(r, k) ==
    /\ r \in 1..Len(runs)
    /\ k \in 1..Len(runs[r].jobs)
    /\ runs[r].st[k] = "writing"
    /\ runs[r].jobs[k] \in files \cup VideoPaths
    /\ thumbs' = thumbs \cup {runs[r].jobs[k]}
    /\ readyCount' = ReadyPublished(runs[r].jobs[k])
    /\ runs' = [runs EXCEPT ![r] = [AfterSuccess(@, k) EXCEPT !.st[k] = "done"]]
    /\ genState' = IF ShouldBroadcast(runs[r]) THEN ProgressState(runs[r], k)
                   ELSE genState
    /\ UNCHANGED <<files, cacheVars, now, ticks, watchEvents, ghostVars, invalidations, storeVars, pureVars, auxVars>>

\* generateThumbnailFast: sharp(...).toFile rejected
JobWriteFail(r, k) ==
    /\ r \in 1..Len(runs)
    /\ k \in 1..Len(runs[r].jobs)
    /\ runs[r].st[k] = "writing"
    /\ runs' = [runs EXCEPT ![r] = [AfterFailure(@, k) EXCEPT !.st[k] = "failed"]]
    /\ UNCHANGED <<files, thumbs, cacheVars, now, ticks, genState, readyCount,
                   watchEvents, ghostVars, invalidations, storeVars, pureVars, auxVars>>

\* a Promise.race: the batch is over when its first job is
BatchSettledByAny(run) == \E k \in BatchOf(run) : run.st[k] \in Terminal

\* a Promise.all that is only satisfied by successes
BatchSettledBySuccess(run) == \A k \in BatchOf(run) : run.st[k] \in Succeeded

BatchSettled(run) == \A k \in BatchOf(run) : run.st[k] \in Terminal
MoreBatches(run) == run.i + BatchSizeFor(Len(run.jobs)) < Len(run.jobs)

\* Promise.all of a batch resolved and another batch remains: the delay starts
BatchEnd(r) ==
    /\ r \in 1..Len(runs)
    /\ runs[r].pc = "batch"
    /\ BatchSettled(runs[r])
    /\ MoreBatches(runs[r])
    /\ runs' = [runs EXCEPT ![r].pc = "delay"]
    /\ UNCHANGED <<files, thumbs, cacheVars, now, ticks, genState, readyCount,
                   watchEvents, ghostVars, invalidations, storeVars, pureVars, auxVars>>

\* the inter-batch timer fired: the next batch is dispatched
NextBatch(r) ==
    /\ r \in 1..Len(runs)
    /\ runs[r].pc = "delay"
    /\ LET run == runs[r]
           i2 == run.i + BatchSizeFor(Len(run.jobs))
           next == [run EXCEPT !.i = i2]
       IN runs' = [runs EXCEPT ![r] =
                     [next EXCEPT !.pc = "batch",
                                  !.st = [k \in 1..Len(run.jobs) |->
                                            IF k \in BatchOf(next) THEN "access"
                                            ELSE run.st[k]]]]
    /\ UNCHANGED <<files, thumbs, cacheVars, now, ticks, genState, readyCount,
                   watchEvents, ghostVars, invalidations, storeVars, pureVars, auxVars>>

\* a final state that leaves the failed jobs out of completed
FinalStateSucceededOnly(run) ==
    [isGenerating |-> FALSE,
     total |-> Len(run.jobs),
     completed |-> run.processedCount,
     currentFile |-> 0,
     progress |-> 100]

\* the state published when the loop is over
FinalState(run) ==
    [isGenerating |-> FALSE,
     total |-> Len(run.jobs),
     completed |-> run.processedCount + run.errorCount,
     currentFile |-> 0,
     progress |-> 100]

\* Promise.all of the last batch resolved: the final event is published
RunComplete(r) ==
    /\ r \in 1..Len(runs)
    /\ runs[r].pc = "batch"
    /\ BatchSettled(runs[r])
    /\ ~MoreBatches(runs[r])
    /\ genState' = FinalState(runs[r])
    /\ runs' = [runs EXCEPT ![r].pc = "done", ![r].final = FinalState(runs[r])]
    /\ UNCHANGED <<files, thumbs, cacheVars, now, ticks, readyCount, watchEvents, ghostVars, invalidations, storeVars, pureVars, auxVars>>

\* ------------------------------------------------------------ file watcher
\* chokidar 'add' for a media file
WatchAdd(p) ==
    /\ watchEvents < MaxWatchEvents
    /\ p \notin files
    /\ files' = files \cup {p}
    /\ watchEvents' = watchEvents + 1
    /\ galleryCache' = Invalidated(galleryCache)
    /\ invalidations' = Published([kind |-> "New file", file |-> p])
    /\ seen' = {}
    /\ UNCHANGED <<thumbs, now, ticks, reqs, refreshes, hits, runs, genState, readyCount,
                   lastReturned, ghostVars, storeVars, pureVars, auxVars>>

\* chokidar 'unlink' for a media file: invalidate, unlink the full thumbnail
WatchUnlink(p) ==
    /\ watchEvents < MaxWatchEvents
    /\ p \in files
    /\ files' = files \ {p}
    /\ watchEvents' = watchEvents + 1
    /\ galleryCache' = Invalidated(galleryCache)
    /\ invalidations' = Published([kind |-> "Deleted file", file |-> p])
    /\ seen' = {}
    /\ thumbs' = thumbs \ {p}
    /\ UNCHANGED <<now, ticks, reqs, refreshes, hits, runs, genState, readyCount,
                   lastReturned, ghostVars, storeVars, pureVars, auxVars>>

\* ------------------------------------------- documented but unrouted calls
\* POST /api/viewport-items with relativePaths = [a]: setupServer registers no
\* such route, the request changes nothing in the server.  What the client
\* asked for is recorded: the jobs that a should now precede.
ReportViewport(a) ==
    /\ vpCalls < MaxViewportCalls
    /\ vpCalls' = vpCalls + 1
    /\ vpOrder' = vpOrder \cup
          {t \in (1..MaxRefreshes) \X (1..MaxFiles) \X (1..MaxFiles) :
              /\ t[1] \in ActiveRuns
              /\ t[2] \in 1..Len(runs[t[1]].jobs)
              /\ t[3] \in 1..Len(runs[t[1]].jobs)
              /\ t[2] # t[3]
              /\ runs[t[1]].jobs[t[2]] = a
              /\ runs[t[1]].st[t[2]] = "queued"
              /\ runs[t[1]].st[t[3]] = "queued"}
    /\ vpJobs' = vpJobs \cup
          {t \in (1..MaxRefreshes) \X (1..MaxFiles) :
              /\ t[1] \in ActiveRuns
              /\ t[2] \in 1..Len(runs[t[1]].jobs)
              /\ runs[t[1]].jobs[t[2]] = a
              /\ runs[t[1]].st[t[2]] = "queued"}
    /\ UNCHANGED <<files, thumbs, cacheVars, now, ticks, runs, genState, readyCount,
                   watchEvents, pauseCalls, pauseWanted, invalidations, storeVars, pureVars, auxVars>>

\* the paths for which tiny_preview_ready has been published: its only
\* publisher, generateThumbnailWithProgress, is called by no route and by no
\* step of generateThumbnailsInBackground
TinyPreviewReady == {}

\* POST /api/pause-thumbnails: no such route either; the client's toggle is
\* recorded
TogglePause ==
    /\ pauseCalls < MaxPauseCalls
    /\ pauseCalls' = pauseCalls + 1
    /\ pauseWanted' = ~pauseWanted
    /\ UNCHANGED <<files, thumbs, cacheVars, now, ticks, runs, genState, readyCount,
                   watchEvents, vpCalls, vpOrder, vpJobs, invalidations, storeVars, pureVars, auxVars>>

\* a directory of ManyFiles media files without stored thumbnails: the
\* generation run reaches the broadcast interval
InitMany ==
    /\ InitRest
    /\ NoArg
    /\ NoWrite
    /\ files = 1..ManyFiles
    /\ thumbs = {}
    /\ NoExtras
    /\ NoCall

\* "cover!.jpg" and "notes.txt"
StrayNames == {<<99, 111, 118, 101, 114, 33>> \o Jpg,
               <<110, 111, 116, 101, 115, 46, 116, 120, 116>>}

\* THUMBNAILS_DIR as earlier sessions left it: both variants of StoreFiles
\* paths and two files of other names; any of the media files may be gone
InitStore ==
    /\ InitRest
    /\ NoArg
    /\ NoWrite
    /\ files \in SUBSET (1..StoreFiles)
    /\ thumbs = 1..StoreFiles
    /\ tinys = 1..StoreFiles
    /\ strays = StrayNames
    /\ NoCall

\* THUMBNAILS_DIR as this server fills it: full thumbnails only; any of the
\* media files may be gone
InitOrphans ==
    /\ InitRest
    /\ NoArg
    /\ NoWrite
    /\ files \in SUBSET (1..StoreFiles)
    /\ thumbs = 1..StoreFiles
    /\ NoExtras
    /\ NoCall

\* the same directory with any of the stored variants missing
InitPartial ==
    /\ InitRest
    /\ NoArg
    /\ NoWrite
    /\ files = 1..StoreFiles
    /\ thumbs \in SUBSET (1..StoreFiles)
    /\ tinys \in SUBSET (1..StoreFiles)
    /\ strays = StrayNames
    /\ NoCall

\* ------------------------------------------------------ server-sent events
Range(seq) == {seq[i] : i \in 1..Len(seq)}

Without(seq, S) == SelectSeq(seq, LAMBDA c : c \notin S)

\* the clients written to when the first failing write ends the iteration
RecipientsUntilFailure(clients) ==
    {clients[i] : i \in {j \in 1..Len(clients) :
                            \A k \in 1..j : conns[clients[k]] = "open"}}

\* the clients that broadcastToClients writes to: neither destroyed nor
\* ended, and client.write does not throw
Recipients(clients) == {c \in Range(clients) : conns[c] = "open"}

\* clientsToRemove
ClientsToRemove(clients) == {c \in Range(clients) : conns[c] # "open"}

\* a write that puts the data in front of what was written before
WrittenFirst(log, data) == <<data>> \o log

\* client.write(data)
Written(log, data) == Append(log, data)

\* GET /api/scan-progress: the response is added to sseClients and the
\* current scanningState is written to it
Subscribe(c) ==
    /\ conns[c] = "new"
    /\ conns' = [conns EXCEPT ![c] = "open"]
    /\ sseClients' = Append(sseClients, c)
    /\ received' = [received EXCEPT ![c] = Written(@, [kind |-> "state", n |-> published])]
    /\ UNCHANGED <<published, lastPublish>>
    /\ UNCHANGED <<files, thumbs, cacheVars, now, ticks, runs, genState, readyCount,
                   watchEvents, ghostVars, invalidations, storeVars, pureVars, fnVars, writeVars>>

\* the connection of an open response breaks: from now on client.write throws
Break(c) ==
    /\ conns[c] = "open"
    /\ conns' = [conns EXCEPT ![c] = "broken"]
    /\ UNCHANGED <<sseClients, received, published, lastPublish>>
    /\ UNCHANGED <<files, thumbs, cacheVars, now, ticks, runs, genState, readyCount,
                   watchEvents, ghostVars, invalidations, storeVars, pureVars, fnVars, writeVars>>

\* the client goes away: the response is destroyed, its 'close' event is
\* still to be delivered
Destroy(c) ==
    /\ conns[c] \in {"open", "broken"}
    /\ conns' = [conns EXCEPT ![c] = "destroyed"]
    /\ UNCHANGED <<sseClients, received, published, lastPublish>>
    /\ UNCHANGED <<files, thumbs, cacheVars, now, ticks, runs, genState, readyCount,
                   watchEvents, ghostVars, invalidations, storeVars, pureVars, fnVars, writeVars>>

\* req.on('close'): sseClients.delete(res)
Close(c) ==
    /\ conns[c] = "destroyed"
    /\ conns' = [conns EXCEPT ![c] = "closed"]
    /\ sseClients' = Without(sseClients, {c})
    /\ UNCHANGED <<received, published, lastPublish>>
    /\ UNCHANGED <<files, thumbs, cacheVars, now, ticks, runs, genState, readyCount,
                   watchEvents, ghostVars, invalidations, storeVars, pureVars, fnVars, writeVars>>

\* broadcastToClients(data), data being event number published + 1
Broadcast ==
    /\ published < MaxEvents
    /\ published' = published + 1
    /\ LET data == [kind |-> "event", n |-> published + 1]
       IN received' = [c \in Clients |->
                         IF c \in Recipients(sseClients) THEN Written(received[c], data)
                         ELSE received[c]]
    /\ sseClients' = Without(sseClients, ClientsToRemove(sseClients))
    /\ lastPublish' = [delivered |-> Recipients(sseClients),
                       removed |-> ClientsToRemove(sseClients)]
    /\ UNCHANGED conns
    /\ UNCHANGED <<files, thumbs, cacheVars, now, ticks, runs, genState, readyCount,
                   watchEvents, ghostVars, invalidations, storeVars, pureVars, fnVars, writeVars>>

\* no media files and an empty THUMBNAILS_DIR: only the event stream moves
InitSse ==
    /\ InitRest
    /\ NoArg
    /\ NoWrite
    /\ files = {}
    /\ thumbs = {}
    /\ NoExtras
    /\ NoCall

NextSse ==
    \/ \E c \in Clients : Subscribe(c)
    \/ \E c \in Clients : Break(c)
    \/ \E c \in Clients : Destroy(c)
    \/ \E c \in Clients : Close(c)
    \/ Broadcast

SpecSse == InitSse /\ [][NextSse]_vars

\* --------------------------------------------------- batch size, by itself
\* generateThumbnailsInBackground is about to be called with pendingCount
\* pending images
InitBatch ==
    /\ InitRest
    /\ NoArg
    /\ NoWrite
    /\ files = {}
    /\ thumbs = {}
    /\ NoExtras
    /\ pendingCount \in 1..MaxPending
    /\ batchSize = 0

\* the batchSize declaration of generateThumbnailsInBackground
ChooseBatchSize ==
    /\ batchSize = 0
    /\ batchSize' = BatchSizeFor(pendingCount)
    /\ UNCHANGED <<files, thumbs, cacheVars, now, ticks, runs, genState, readyCount,
                   watchEvents, ghostVars, invalidations, storeVars, pendingCount, auxVars>>

\* ---------------------------------------------------------- specifications
RequestStep ==
    \/ GetGallery
    \/ PostRescan
    \/ \E s \in 1..MaxInFlight : Cleanup(s)
    \/ \E s \in 1..MaxInFlight : Scan(s)
    \/ \E s \in 1..MaxInFlight : FinishRefresh(s)

JobStep ==
    \/ \E r \in 1..MaxRefreshes, k \in Paths : JobAccess(r, k)
    \/ \E r \in 1..MaxRefreshes, k \in Paths : JobWriteOk(r, k)
    \/ \E r \in 1..MaxRefreshes, k \in Paths : JobWriteFail(r, k)
    \/ \E r \in 1..MaxRefreshes : RunComplete(r)

BatchStep ==
    \/ \E r \in 1..MaxRefreshes : BatchEnd(r)
    \/ \E r \in 1..MaxRefreshes : NextBatch(r)

\* requests and generation runs, overlapping
Next ==
    \/ RequestStep
    \/ JobStep
    \/ BatchStep

Spec == Init /\ [][Next]_vars

\* requests over time; at most one thumbnail is missing, so every run has a
\* single batch
NextTime ==
    \/ Tick
    \/ RequestStep
    \/ JobStep

SpecTime == InitWarm /\ [][NextTime]_vars

\* the same requests over time, without the steps of the generation jobs
\* (which leave galleryCache alone)
NextFresh ==
    \/ Tick
    \/ RequestStep

SpecFresh == InitWarm /\ [][NextFresh]_vars

\* the files that change while the server runs: the video, whose thumbnail
\* is missing, an image whose thumbnail is stored, and a new file
WatchedPaths == VideoPaths \cup {ColdFiles, ColdFiles + 1}

\* requests and file-watcher events
NextWatch ==
    \/ RequestStep
    \/ \E p \in WatchedPaths : WatchAdd(p)
    \/ \E p \in WatchedPaths : WatchUnlink(p)

SpecWatch == InitWarm /\ [][NextWatch]_vars

\* one page load and the generation run it starts
FirstLoad == refreshes = 0 /\ GetGallery

RefreshStep ==
    \/ \E s \in 1..MaxInFlight : Cleanup(s)
    \/ \E s \in 1..MaxInFlight : Scan(s)
    \/ \E s \in 1..MaxInFlight : FinishRefresh(s)

NextLoad ==
    \/ FirstLoad
    \/ RefreshStep
    \/ JobStep
    \/ BatchStep

SpecLoad == InitFull /\ [][NextLoad]_vars

\* one page load on the larger directory
SpecMany == InitMany /\ [][NextLoad]_vars

\* page loads whose cleanups overlap, on a directory with stored files
CleanupStep ==
    \/ \E s \in 1..MaxInFlight : CleanupList(s)
    \/ \E s \in 1..MaxInFlight : CleanupAccess(s)
    \/ \E s \in 1..MaxInFlight : CleanupUnlink(s)
    \/ \E s \in 1..MaxInFlight : CleanupReturn(s)

NextStore ==
    \/ GetGallery
    \/ CleanupStep

SpecStore == InitStore /\ [][NextStore]_vars

SpecOrphans == InitOrphans /\ [][NextStore]_vars

\* media files are removed while the server watches the directory
NextRemove == \E p \in 1..StoreFiles : WatchUnlink(p)

SpecRemove == InitPartial /\ [][NextRemove]_vars

\* every pending fs or codec call returns and every timer fires
FairLoad == SpecLoad /\ WF_vars(RefreshStep) /\ WF_vars(JobStep \/ BatchStep)

\* one page load, followed by the client's viewport reports and pause toggles
NextClient ==
    \/ NextLoad
    \/ \E a \in 1..MaxFiles : ReportViewport(a)
    \/ TogglePause

SpecClient == InitFull /\ [][NextClient]_vars

\* the batch size of a call, for every number of pending images
SpecBatch == InitBatch /\ [][ChooseBatchSize]_vars

\* ------------------------------------------------------------------ claims
JobsIn(run, statuses) == {k \in 1..Len(run.jobs) : run.st[k] \in statuses}
MultiBatch(run) == Len(run.jobs) > BatchSizeFor(Len(run.jobs))

\* C1: when a run over N pending jobs has completed, its succeeded count plus
\* its failed count is N, and the completed value of its final global-progress
\* event is N, whatever subset of the jobs failed.
C1_CompletionCounts ==
    \A r \in 1..Len(runs) :
        runs[r].pc = "done" =>
            /\ runs[r].processedCount + runs[r].errorCount = Len(runs[r].jobs)
            /\ runs[r].final.completed = Len(runs[r].jobs)
            /\ runs[r].final.total = Len(runs[r].jobs)

\* a completed run of more than one batch with failed and succeeded jobs
C1_Witness ==
    \E r \in 1..Len(runs) :
        /\ runs[r].pc = "done"
        /\ MultiBatch(runs[r])
        /\ JobsIn(runs[r], {"failed"}) # {}
        /\ JobsIn(runs[r], Succeeded) # {}

\* C3: a failing job is counted as failed exactly once, and every job of its
\* batch and of the later batches is still attempted and reaches its own
\* terminal state before the run completes.
C3_FailureIsolated ==
    \A r \in 1..Len(runs) :
        /\ runs[r].errorCount = Cardinality(JobsIn(runs[r], {"failed"}))
        /\ runs[r].processedCount = Cardinality(JobsIn(runs[r], Succeeded))
        /\ runs[r].pc = "done" => JobsIn(runs[r], Terminal) = 1..Len(runs[r].jobs)

\* a completed run whose first batch had a failure and whose later batch and
\* batch mates succeeded
C3_Witness ==
    \E r \in 1..Len(runs) :
        /\ runs[r].pc = "done"
        /\ MultiBatch(runs[r])
        /\ \E k \in 1..BatchSizeFor(Len(runs[r].jobs)) : runs[r].st[k] = "failed"
        /\ \E k \in 1..BatchSizeFor(Len(runs[r].jobs)) : runs[r].st[k] = "done"
        /\ runs[r].st[Len(runs[r].jobs)] = "done"

\* C2: every job handed to a generation run eventually reaches a terminal state
\* and the run eventually publishes its final global-progress event with
\* isGenerating = false, provided every pending call returns.
C2_EveryJobTerminates ==
    \A r \in 1..MaxRefreshes :
        (Len(runs) >= r) ~>
            (/\ Len(runs) >= r
             /\ runs[r].pc = "done"
             /\ JobsIn(runs[r], Terminal) = 1..Len(runs[r].jobs)
             /\ runs[r].final # NULL
             /\ runs[r].final.isGenerating = FALSE)

\* a run of three batches has completed although a job of its first batch failed
C2_Witness ==
    \E r \in 1..Len(runs) :
        /\ runs[r].pc = "done"
        /\ Len(runs[r].jobs) > 2 * BatchSizeFor(Len(runs[r].jobs))
        /\ runs[r].st[1] = "failed"
        /\ runs[r].final.isGenerating = FALSE

\* C4: after job a was reported visible while a and b were both waiting, a is
\* generated no later than b: b is never finished while a still waits for its
\* batch.
C4_ViewportFirst ==
    \A t \in vpOrder :
        runs[t[1]].st[t[3]] \in Terminal => runs[t[1]].st[t[2]] # "queued"

\* C5: while the client has paused generation, no job is dispatched.
C5_NoDispatchWhilePaused ==
    [][pauseWanted /\ pauseWanted' =>
          \A r \in 1..Len(runs) : \A k \in 1..Len(runs[r].jobs) :
              runs[r].st[k] = "queued" => runs'[r].st[k] = "queued"]_vars

\* C6: a job that was reported visible before it was dispatched has its
\* tiny_preview_ready published before its full thumbnail is written and
\* thumbnail_ready is published.
C6_TinyBeforeFull ==
    \A t \in vpJobs :
        runs[t[1]].st[t[2]] = "done" => runs[t[1]].jobs[t[2]] \in TinyPreviewReady

\* the getCachedGalleryData calls whose directory scan is in progress
Scanning == {s \in InFlight : reqs[s].pc = "scan"}

\* C7: at most one directory scan is in progress at any time.
C7_SingleFlight == Cardinality(Scanning) <= 1

\* C8: at most one generation run has unfinished jobs at any time.
C8_SingleRun == Cardinality(ActiveRuns) <= 1

Returns(s) == reqs[s] # NULL /\ reqs'[s] = NULL

\* C9: a call is answered from the cache only when a snapshot exists, is not
\* marked stale and is younger than CACHE_DURATION, and then it returns that
\* snapshot; in every other case the call scans, and what it returns is the
\* snapshot it has just built and stored, not marked stale.
C9_CachedOnlyWhenFresh ==
    [][/\ hits' # hits =>
            /\ galleryCache.data # NULL
            /\ ~galleryCache'.isStale
            /\ now - galleryCache.lastScan < CACHE_DURATION
            /\ lastReturned'.data = galleryCache.data
       /\ refreshes' # refreshes =>
            \/ galleryCache.data = NULL
            \/ galleryCache'.isStale
            \/ now - galleryCache.lastScan >= CACHE_DURATION
       /\ \A s \in 1..MaxInFlight : Returns(s) =>
            /\ reqs[s].pc = "check"
            /\ lastReturned'.data = galleryCache'.data
            /\ lastReturned'.data.lastScan = reqs[s].now
            /\ ~galleryCache'.isStale]_vars

\* a call answered from the cache, and later a call that scans because the
\* snapshot, not marked stale, is exactly CACHE_DURATION old
C9_Witness ==
    /\ hits > 0
    /\ galleryCache.data # NULL
    /\ ~galleryCache.isStale
    /\ \E s \in InFlight : reqs[s].now - galleryCache.lastScan = CACHE_DURATION

\* C10: a call made within the freshness window of a snapshot that an earlier
\* call returned, with no invalidation since, returns that same snapshot and
\* does not scan.
C10_Idempotent ==
    [][/\ hits' # hits =>
            \A e \in seen : now - e.lastScan < CACHE_DURATION => lastReturned'.data = e
       /\ refreshes' # refreshes =>
            \A e \in seen' : now - e.lastScan >= CACHE_DURATION]_vars
\* C11: invalidateCache marks the cache stale and publishes exactly one
\* cacheInvalidated event carrying its reason; it leaves the cached data and
\* lastScan as they were and starts no scan: a scan starts only in a
\* getCachedGalleryData call, and the first such call after the invalidation
\* does scan.
C11_InvalidateOnlyMarks ==
    [][/\ (invalidations' # invalidations =>
            /\ Len(invalidations') = Len(invalidations) + 1
            /\ SubSeq(invalidations', 1, Len(invalidations)) = invalidations
            /\ galleryCache' = [galleryCache EXCEPT !.isStale = TRUE]
            /\ LET reason == invalidations'[Len(invalidations')]
               IN \/ reason.kind = "New file" /\ files' \ files = {reason.file}
                  \/ reason.kind = "Deleted file" /\ files \ files' = {reason.file}
                  \/ reason.kind = "Manual rescan" /\ PostRescan
            /\ (reqs' # reqs => PostRescan))
       /\ (refreshes' # refreshes => GetGallery \/ PostRescan)
       /\ (galleryCache.isStale /\ GetGallery => refreshes' = refreshes + 1)]_vars

\* a watcher event has invalidated a cache that holds a snapshot, and no scan
\* is in progress
C11_Witness ==
    /\ invalidations # << >>
    /\ invalidations[Len(invalidations)].kind = "Deleted file"
    /\ galleryCache.isStale
    /\ galleryCache.data # NULL
    /\ InFlight = {}

\* the paths whose full thumbnail a generation job has written
Generated == {p \in Paths : \E r \in 1..Len(runs) : \E k \in 1..Len(runs[r].jobs) :
                                runs[r].jobs[k] = p /\ runs[r].st[k] = "done"}

\* C12: once the generation of an item's full thumbnail has completed, a
\* snapshot served from the cache reports the item as thumbnail-ready.
C12_ReadyFlagPatched ==
    [][hits' # hits =>
          \A p \in DOMAIN lastReturned'.data.ready :
              p \in Generated => lastReturned'.data.ready[p]]_vars

C14_DocumentedTiers ==
    batchSize # 0 =>
        batchSize = IF pendingCount < 100 THEN 3
                    ELSE IF pendingCount < 500 THEN 6
                    ELSE 10

\* the number of mid-run global-progress events a run has published: the
\* code publishes one each time processedCount is broadcastInterval above
\* lastBroadcast, and then sets lastBroadcast to processedCount
MidRunEvents(run) == run.lastBroadcast \div BroadcastIntervalFor(Len(run.jobs))

\* C15: during a run over T jobs a mid-run global-progress event is published
\* each time max(10, floor(T / 50)) further jobs have completed (done or
\* failed), and never more often: the number of such events is the number of
\* completed jobs divided by the interval.
C15_BroadcastEveryInterval ==
    \A r \in 1..Len(runs) :
        runs[r].pc # "done" =>
            MidRunEvents(runs[r]) =
                (runs[r].processedCount + runs[r].errorCount)
                    \div BroadcastIntervalFor(Len(runs[r].jobs))

\* C16: in a run started with no stored thumbnails whose jobs all succeed,
\* thumbnail_ready is published exactly once per job, and the final
\* global-progress event is published whatever the broadcast interval, with
\* completed = total, progress = 100 and isGenerating = false.
C16_ReadyOnceAndFinalEvent ==
    \A r \in 1..Len(runs) :
        LET run == runs[r]
            N == Len(run.jobs)
        IN (\A k \in 1..N : run.st[k] \notin {"failed", "cached"}) =>
               /\ \A k \in 1..N :
                      readyCount[run.jobs[k]] = IF run.st[k] = "done" THEN 1 ELSE 0
               /\ run.pc = "done" =>
                      /\ run.final # NULL
                      /\ run.final.completed = N
                      /\ run.final.total = N
                      /\ run.final.progress = 100
                      /\ ~run.final.isGenerating
                      /\ genState = run.final

\* a run of several batches, shorter than the broadcast interval, has
\* completed without a failure
C16_Witness ==
    \E r \in 1..Len(runs) :
        /\ runs[r].pc = "done"
        /\ MultiBatch(runs[r])
        /\ Len(runs[r].jobs) < BroadcastIntervalFor(Len(runs[r].jobs))
        /\ \A k \in 1..Len(runs[r].jobs) :
               runs[r].st[k] = "done" /\ readyCount[runs[r].jobs[k]] = 1

\* the name is key.jpg where key is the base64 text of the UTF-8 bytes of some
\* string: decoding the key and encoding the result gives the key back
ValidEncoding(name) ==
    /\ EndsWith(name, Jpg)
    /\ LET key == SubSeq(name, 1, Len(name) - Len(Jpg))
           bytes == Base64Decode(key)
       IN /\ Base64Encode(bytes) = key
          /\ Utf8Encode(Utf8Decode(bytes)) = bytes

Calls == {s \in 1..MaxInFlight : cleanups[s] # NULL}

\* C17: cleanupOrphanedThumbnails never deletes a stored file whose name is
\* not the valid encoding of a relative path; such a file is skipped.
C17_UndecodableSkipped ==
    \A s \in Calls : \A e \in cleanups[s].unlinked :
        e.kind = "stray" => ValidEncoding(e.name)

\* C18: for every media file that still exists under scanDir,
\* cleanupOrphanedThumbnails leaves both stored variants, {key}.jpg and
\* {key}_tiny.jpg, in place.
C18_ArtifactsOfExistingKept ==
    \A s \in Calls : \A e \in cleanups[s].unlinked :
        e.kind \in {"full", "tiny"} => e.path \notin files

\* C19: when cleanupOrphanedThumbnails has returned, no full thumbnail whose
\* decoded source is absent remains in THUMBNAILS_DIR, every such thumbnail
\* was deleted by exactly one call, and the count a call returns is the
\* number of files that call deleted.
C19_OrphansDeletedOnceAndCounted ==
    /\ \A s \in Calls :
           cleanups[s].pc = "returned" =>
               /\ \A p \in thumbs : ~Orphaned(thumbnailName(p))
               /\ \A p \in (1..StoreFiles) \ files :
                      \E t \in Calls : FullEntry(p) \in cleanups[t].unlinked
               /\ cleanups[s].cleanedCount = Cardinality(cleanups[s].unlinked)
    /\ \A s \in Calls : \A t \in Calls :
           s # t => cleanups[s].unlinked \cap cleanups[t].unlinked = {}

\* two overlapping calls have returned, each having deleted an orphaned full
\* thumbnail
C19_Witness ==
    \E s \in Calls : \E t \in Calls :
        /\ s # t
        /\ cleanups[s].pc = "returned"
        /\ cleanups[t].pc = "returned"
        /\ \E e \in cleanups[s].unlinked : e.kind = "full"
        /\ \E e \in cleanups[t].unlinked : e.kind = "full"

\* C20: when the watcher reports a media file removed, neither its full
\* thumbnail nor its tiny preview is in THUMBNAILS_DIR afterwards.
C20_BothVariantsRemoved ==
    [][\A p \in files \ files' : p \notin thumbs' /\ p \notin tinys']_vars

\* C21: broadcastToClients writes the event to every subscriber that is
\* still writable; a subscriber that is destroyed, or whose write throws, is
\* removed from sseClients and the others still receive the event; with no
\* subscriber the call changes nothing.
C21_FanOut ==
    [][published' # published =>
          LET data == [kind |-> "event", n |-> published']
              live == {c \in Range(sseClients) : conns[c] = "open"}
          IN /\ \A c \in live : received'[c] = Append(received[c], data)
             /\ \A c \in Clients \ live : received'[c] = received[c]
             /\ Range(sseClients') = live]_vars

\* the last call removed a subscriber whose write threw and delivered the
\* event to a subscriber that was added after it
C21_Witness ==
    /\ lastPublish # NULL
    /\ \E c \in lastPublish.removed : \E d \in lastPublish.delivered :
           /\ conns[c] = "broken"
           /\ received[c][1].n < received[d][1].n
           /\ received[d][Len(received[d])] = [kind |-> "event", n |-> published]

\* C22: a subscriber receives the events published after its subscription,
\* in the order of their publication, and nothing is written to it after its
\* 'close' event has unsubscribed it.
C22_OrderedUntilClose ==
    [][\A c \in Clients :
          /\ conns'[c] # "new" =>
                /\ received'[c][1].kind = "state"
                /\ \A i \in 2..Len(received'[c]) :
                       received'[c][i] = [kind |-> "event", n |-> received'[c][1].n + i - 1]
          /\ conns'[c] = "open" =>
                Len(received'[c]) = published' - received'[c][1].n + 1
          /\ conns[c] = "closed" => received'[c] = received[c]]_vars

\* a subscriber received two events, was unsubscribed, and a third event was
\* published afterwards
C22_Witness ==
    \E c \in Clients :
        /\ conns[c] = "closed"
        /\ Len(received[c]) = 3
        /\ published = 3


(***************************************************************************)
(* The directory scan.  File and directory names are sequences of          *)
(* character codes, so that the tests the code makes on them (extension,  *)
(* leading dot, thumbnail pattern, path components) are computed.         *)
(***************************************************************************)

\* the most entries of the scan root in a drawn tree
MaxEntries == 3

\* "/"
Sep == 47

\* "."
Dot == 46

\* "/srv/photos"
SCAN_DIR == <<47, 115, 114, 118, 47, 112, 104, 111, 116, 111, 115>>

\* ".gallery-cache"
GalleryCache == <<46, 103, 97, 108, 108, 101, 114, 121, 45, 99, 97, 99, 104, 101>>

\* "node_modules"
NodeModules == <<110, 111, 100, 101, 95, 109, 111, 100, 117, 108, 101, 115>>

\* .jpg .jpeg .png .gif .bmp .webp .tiff .svg
IMAGE_EXTENSIONS ==
    {<<46, 106, 112, 103>>,
     <<46, 106, 112, 101, 103>>,
     <<46, 112, 110, 103>>,
     <<46, 103, 105, 102>>,
     <<46, 98, 109, 112>>,
     <<46, 119, 101, 98, 112>>,
     <<46, 116, 105, 102, 102>>,
     <<46, 115, 118, 103>>}

\* .mp4 .mov .avi .mkv .webm .ogg .m4v .3gp .wmv .flv
VIDEO_EXTENSIONS ==
    {<<46, 109, 112, 52>>,
     <<46, 109, 111, 118>>,
     <<46, 97, 118, 105>>,
     <<46, 109, 107, 118>>,
     <<46, 119, 101, 98, 109>>,
     <<46, 111, 103, 103>>,
     <<46, 109, 52, 118>>,
     <<46, 51, 103, 112>>,
     <<46, 119, 109, 118>>,
     <<46, 102, 108, 118>>}

\* thumbnails, thumb, thumbs, .thumbnails
thumbnailDirs ==
    {<<116, 104, 117, 109, 98, 110, 97, 105, 108, 115>>,
     <<116, 104, 117, 109, 98>>,
     <<116, 104, 117, 109, 98, 115>>,
     <<46, 116, 104, 117, 109, 98, 110, 97, 105, 108, 115>>}

\* String.prototype.toLowerCase on the ASCII letters
toLowerCase(str) == [i \in 1..Len(str) |-> IF str[i] \in 65..90 THEN str[i] + 32 ELSE str[i]]

\* String.prototype.startsWith
startsWith(str, prefix) ==
    /\ Len(str) >= Len(prefix)
    /\ SubSeq(str, 1, Len(prefix)) = prefix

\* String.prototype.includes
includes(str, pattern) == Occurrences(str, pattern) # {}

\* the positions of the character c in str
Positions(str, c) == {i \in 1..Len(str) : str[i] = c}

MaxOf(S) == CHOOSE x \in S : \A y \in S : x >= y

\* path.extname of a file name: from its last dot on, nothing when there is
\* no dot or the only dot is the first character
extname(filename) ==
    LET dots == Positions(filename, Dot)
    IN IF dots = {} \/ MaxOf(dots) = 1 THEN <<>>
       ELSE SubSeq(filename, MaxOf(dots), Len(filename))

\* path.dirname of a path that has a separator after its first character
dirname(filePath) == SubSeq(filePath, 1, MaxOf(Positions(filePath, Sep)) - 1)

\* path.join(dir, name)
join(dir, name) == dir \o <<Sep>> \o name

\* path.relative(scanDir, p) for p = scanDir or a path below it
relative(p) ==
    IF p = SCAN_DIR THEN <<>> ELSE SubSeq(p, Len(SCAN_DIR) + 2, Len(p))

\* str.split(path.sep)
RECURSIVE split(_)
split(str) ==
    LET seps == Positions(str, Sep)
    IN IF seps = {} THEN <<str>>
       ELSE <<SubSeq(str, 1, MinOf(seps) - 1)>>
            \o split(SubSeq(str, MinOf(seps) + 1, Len(str)))

isImage(filename) == toLowerCase(extname(filename)) \in IMAGE_EXTENSIONS

isVideo(filename) == toLowerCase(extname(filename)) \in VIDEO_EXTENSIONS

isMedia(filename) == isImage(filename) \/ isVideo(filename)

\* [A-Za-z0-9+/]
IsKeyChar(c) == c \in (65..90) \cup (97..122) \cup (48..57) \cup {43, 47}

\* filename.match(/^[A-Za-z0-9+/]+=*\.jpg$/)
MatchesThumbnailPattern(filename) ==
    /\ EndsWith(filename, Jpg)
    /\ LET stem == SubSeq(filename, 1, Len(filename) - Len(Jpg))
       IN \E k \in 1..Len(stem) :
              /\ \A i \in 1..k : IsKeyChar(stem[i])
              /\ \A i \in (k + 1)..Len(stem) : stem[i] = 61

isLikelyThumbnail(filePath, filename) ==
    \/ includes(filePath, GalleryCache)
    \/ MatchesThumbnailPattern(filename)
    \/ Range(split(toLowerCase(dirname(filePath)))) \cap thumbnailDirs # {}

\* scanDirectory descends into every directory
DescendsAlways(name) == TRUE

\* scanDirectory descends into a directory unless it is hidden, node_modules
\* or the cache directory
Descends(name) ==
    /\ ~startsWith(name, <<Dot>>)
    /\ name # NodeModules
    /\ name # GalleryCache

\* fs.readdir never fails
ListedAnyway(node) == TRUE

\* fs.readdir(dir, {withFileTypes: true}) succeeds
Listed(node) == node.readable

\* fs.stat(fullPath) of a listed file succeeds
StatOk(item) == item.stat

\* the descriptor scanDirectory pushes for a file of directory dir
Descriptor(dir, name) ==
    [name |-> name,
     relativePath |-> relative(join(dir, name)),
     directory |-> IF relative(dir) = <<>> THEN <<Dot>> ELSE relative(dir),
     type |-> IF isImage(name) THEN "image" ELSE "video"]

\* scanDirectory(dir): the descriptors of the media files below dir, in the
\* order in which readdir lists them; a directory that cannot be read
\* contributes nothing (the error is caught and logged)
RECURSIVE scanDirectory(_, _)
RECURSIVE ScanItems(_, _)
scanDirectory(dir, node) ==
    IF Listed(node) THEN ScanItems(dir, node.items) ELSE <<>>

\* the loop of scanDirectory over the listed items
ScanItems(dir, items) ==
    IF items = <<>> THEN <<>>
    ELSE LET item == Head(items)
             fullPath == join(dir, item.name)
         IN IF item.kind = "dir"
            THEN (IF Descends(item.name) THEN scanDirectory(fullPath, item) ELSE <<>>)
                 \o ScanItems(dir, Tail(items))
            ELSE IF /\ item.kind = "file"
                    /\ isMedia(item.name)
                    /\ ~isLikelyThumbnail(fullPath, item.name)
                 THEN IF StatOk(item)
                      THEN <<Descriptor(dir, item.name)>> \o ScanItems(dir, Tail(items))
                      \* fs.stat throws inside the try around the whole loop:
                      \* the catch ends the scan of this directory
                      ELSE <<>>
                 ELSE ScanItems(dir, Tail(items))

\* the collation weight of a character for localeCompare: punctuation, then
\* digits, then letters, a lower-case letter just before its capital
Weight(c) ==
    IF c \in 48..57 THEN 200 + c
    ELSE IF c \in 97..122 THEN 300 + 2 * (c - 97)
    ELSE IF c \in 65..90 THEN 301 + 2 * (c - 65)
    ELSE c

\* a.localeCompare(b) < 0
Precedes(a, b) ==
    \E i \in 1..(Len(a) + 1) :
        /\ i <= Len(b) + 1
        /\ \A j \in 1..(i - 1) : a[j] = b[j]
        /\ \/ i = Len(a) + 1 /\ i <= Len(b)
           \/ i <= Len(a) /\ i <= Len(b) /\ Weight(a[i]) < Weight(b[i])

\* the comparator of pendingThumbnails.sort: directory, then name
JobBefore(a, b) ==
    \/ Precedes(a.directory, b.directory)
    \/ a.directory = b.directory /\ Precedes(a.name, b.name)

\* Array.prototype.sort with that comparator (stable)
RECURSIVE SortJobs(_)
SortJobs(jobs) ==
    IF jobs = <<>> THEN <<>>
    ELSE LET rest == SortJobs(Tail(jobs))
             before == SelectSeq(rest, LAMBDA j : JobBefore(j, Head(jobs)))
             after == SelectSeq(rest, LAMBDA j : ~JobBefore(j, Head(jobs)))
         IN before \o <<Head(jobs)>> \o after

\* galleries[d]: the descriptors of directory d in the order of the scan
Group(images, d) == SelectSeq(images, LAMBDA image : image.directory = d)

\* the result of getCachedGalleryData on a cold cache with an empty
\* THUMBNAILS_DIR: every image is pending, the pending ones are sorted and
\* handed to generateThumbnailsInBackground
GalleryData(images) ==
    [totalImages |-> Len(images),
     galleries |-> [d \in {images[i].directory : i \in 1..Len(images)} |-> Group(images, d)],
     pendingThumbnails |-> Len(images),
     jobs |-> SortJobs(images)]

\* the entries a drawn scan root is made of
Catalog ==
    {\* b-2.jpg
     [name |-> <<98, 45, 50, 46, 106, 112, 103>>, kind |-> "file", readable |-> TRUE, stat |-> TRUE, items |-> <<>>],
     \* a-1.mp4
     [name |-> <<97, 45, 49, 46, 109, 112, 52>>, kind |-> "file", readable |-> TRUE, stat |-> TRUE, items |-> <<>>],
     \* C-3.PNG
     [name |-> <<67, 45, 51, 46, 80, 78, 71>>, kind |-> "file", readable |-> TRUE, stat |-> TRUE, items |-> <<>>],
     \* photo.jpg
     [name |-> <<112, 104, 111, 116, 111, 46, 106, 112, 103>>, kind |-> "file", readable |-> TRUE, stat |-> TRUE, items |-> <<>>],
     \* g-7.jpg, deleted between the listing and its stat
     [name |-> <<103, 45, 55, 46, 106, 112, 103>>, kind |-> "file", readable |-> TRUE, stat |-> FALSE, items |-> <<>>],
     \* notes.txt
     [name |-> <<110, 111, 116, 101, 115, 46, 116, 120, 116>>, kind |-> "file", readable |-> TRUE, stat |-> TRUE, items |-> <<>>],
     \* link-1.jpg, a symbolic link
     [name |-> <<108, 105, 110, 107, 45, 49, 46, 106, 112, 103>>, kind |-> "other", readable |-> TRUE, stat |-> TRUE, items |-> <<>>],
     \* sub/ with z-9.gif, .deep/d-1.jpg and k-5.webm
     [name |-> <<115, 117, 98>>, kind |-> "dir", readable |-> TRUE, stat |-> TRUE,
     items |-> <<[name |-> <<122, 45, 57, 46, 103, 105, 102>>, kind |-> "file", readable |-> TRUE, stat |-> TRUE, items |-> <<>>],
                 [name |-> <<46, 100, 101, 101, 112>>, kind |-> "dir", readable |-> TRUE, stat |-> TRUE,
     items |-> <<[name |-> <<100, 45, 49, 46, 106, 112, 103>>, kind |-> "file", readable |-> TRUE, stat |-> TRUE, items |-> <<>>]>>],
                 [name |-> <<107, 45, 53, 46, 119, 101, 98, 109>>, kind |-> "file", readable |-> TRUE, stat |-> TRUE, items |-> <<>>]>>],
     \* locked/ with l-1.jpg, unreadable
     [name |-> <<108, 111, 99, 107, 101, 100>>, kind |-> "dir", readable |-> FALSE, stat |-> TRUE,
     items |-> <<[name |-> <<108, 45, 49, 46, 106, 112, 103>>, kind |-> "file", readable |-> TRUE, stat |-> TRUE, items |-> <<>>]>>],
     \* .hidden/ with h-1.jpg
     [name |-> <<46, 104, 105, 100, 100, 101, 110>>, kind |-> "dir", readable |-> TRUE, stat |-> TRUE,
     items |-> <<[name |-> <<104, 45, 49, 46, 106, 112, 103>>, kind |-> "file", readable |-> TRUE, stat |-> TRUE, items |-> <<>>]>>],
     \* node_modules/ with n-1.jpg
     [name |-> <<110, 111, 100, 101, 95, 109, 111, 100, 117, 108, 101, 115>>, kind |-> "dir", readable |-> TRUE, stat |-> TRUE,
     items |-> <<[name |-> <<110, 45, 49, 46, 106, 112, 103>>, kind |-> "file", readable |-> TRUE, stat |-> TRUE, items |-> <<>>]>>],
     \* .gallery-cache/ with c-1.jpg
     [name |-> <<46, 103, 97, 108, 108, 101, 114, 121, 45, 99, 97, 99, 104, 101>>, kind |-> "dir", readable |-> TRUE, stat |-> TRUE,
     items |-> <<[name |-> <<99, 45, 49, 46, 106, 112, 103>>, kind |-> "file", readable |-> TRUE, stat |-> TRUE, items |-> <<>>]>>]}

\* the listings of the scan root: up to MaxEntries different entries in any
\* order
Listings ==
    {l \in UNION {[1..n -> Catalog] : n \in 0..MaxEntries} :
        \A i, j \in 1..Len(l) : i # j => l[i].name # l[j].name}

\* the scan root as a directory
Root(listing) == [name |-> <<>>, kind |-> "dir", readable |-> TRUE, stat |-> TRUE, items |-> listing]

InitIdle ==
    /\ InitRest
    /\ NoWrite
    /\ files = {}
    /\ thumbs = {}
    /\ NoExtras
    /\ NoCall

InitScan ==
    /\ InitIdle
    /\ arg \in Listings
    /\ ret = NULL

\* a first request on a cold cache: the tree is scanned and the snapshot built
ScanTree ==
    /\ ret = NULL
    /\ ret' = [images |-> scanDirectory(SCAN_DIR, Root(arg)),
               data |-> GalleryData(scanDirectory(SCAN_DIR, Root(arg)))]
    /\ UNCHANGED <<arg, files, thumbs, cacheVars, now, ticks, runs, genState, readyCount,
                   watchEvents, ghostVars, invalidations, storeVars, pureVars, sseVars, writeVars>>

NextScan == ScanTree
SpecScan == InitScan /\ [][NextScan]_vars

\* the relative paths of the scanned descriptors
Scanned == {ret.images[i].relativePath : i \in 1..Len(ret.images)}

\* a directory whose content is not to be scanned
Excluded(name) == startsWith(name, <<Dot>>) \/ name = NodeModules \/ name = GalleryCache

\* the relative paths of the files of a tree that lie below an excluded
\* directory (inside: an ancestor is excluded)
RECURSIVE FilesBelowExcluded(_, _, _)
FilesBelowExcluded(dir, items, inside) ==
    UNION {IF items[i].kind = "dir"
           THEN FilesBelowExcluded(join(dir, items[i].name), items[i].items,
                                   inside \/ Excluded(items[i].name))
           ELSE IF inside THEN {relative(join(dir, items[i].name))} ELSE {}
           : i \in 1..Len(items)}

\* C23: whatever the tree, no file that lies inside a .gallery-cache
\* directory, a hidden directory or a node_modules directory is among the
\* descriptors the scan returns, media extension or not.
C23_ExcludedNeverScanned ==
    ret # NULL => Scanned \cap FilesBelowExcluded(SCAN_DIR, arg, FALSE) = {}

\* a tree with media files below excluded directories, one of them nested in
\* a directory that is scanned, has been scanned and other files were returned
C23_Witness ==
    /\ ret # NULL
    /\ <<115, 117, 98, 47, 46, 100, 101, 101, 112, 47, 100, 45, 49, 46, 106, 112, 103>> \in FilesBelowExcluded(SCAN_DIR, arg, FALSE)
    /\ Cardinality(FilesBelowExcluded(SCAN_DIR, arg, FALSE)) >= 2
    /\ \A f \in FilesBelowExcluded(SCAN_DIR, arg, FALSE) : isMedia(f)
    /\ Len(ret.images) >= 2

\* the files the scan root directly contains that have an extension of list
DirectFiles(listing, extensions) ==
    {i \in 1..Len(listing) :
        listing[i].kind = "file" /\ toLowerCase(extname(listing[i].name)) \in extensions}

\* C24: a scan root that directly contains n image files and m video files,
\* whatever their base names, and no thumbnails yields totalImages = n + m,
\* one group '.' with the n + m descriptors, and n + m background jobs.
C24_RootFilesAllCounted ==
    (ret # NULL /\ \A i \in 1..Len(arg) : arg[i].kind = "file" /\ arg[i].stat) =>
        LET total == Cardinality(DirectFiles(arg, IMAGE_EXTENSIONS))
                     + Cardinality(DirectFiles(arg, VIDEO_EXTENSIONS))
        IN /\ ret.data.totalImages = total
           /\ total > 0 => /\ DOMAIN ret.data.galleries = {<<Dot>>}
                           /\ Len(ret.data.galleries[<<Dot>>]) = total
           /\ Len(ret.data.jobs) = total

\* a listing without the directories that cannot be read
Readable(listing) == SelectSeq(listing, LAMBDA e : e.kind # "dir" \/ e.readable)

C28_GroupsOrderedByName ==
    ret # NULL =>
        \A d \in DOMAIN ret.data.galleries :
            \A i, j \in 1..Len(ret.data.galleries[d]) :
                i < j => ~Precedes(ret.data.galleries[d][j].name,
                                   ret.data.galleries[d][i].name)


(***************************************************************************)
(* The thumbnail key on its own: a relative path is encoded as hasThumbnail *)
(* and the generators encode it, the name of the thumbnail is decoded as   *)
(* cleanupOrphanedThumbnails decodes it.                                   *)
(***************************************************************************)

\* the longest relative path drawn
MaxPathLen == 3

\* the characters of the drawn relative paths: a, ?, /, e-acute (2 bytes),
\* the euro sign (3 bytes), U+FFFD and an emoji (4 bytes, a surrogate pair)
PathChars == {97, 63, 47, 233, 8364, 65533, 128512}

\* the relative paths: every string of up to MaxPathLen of these characters,
\* the empty one included
RelativePaths == UNION {[1..n -> PathChars] : n \in 0..MaxPathLen}

InitKey ==
    /\ InitIdle
    /\ arg \in RelativePaths
    /\ ret = NULL

\* the thumbnail of arg is named, and the name decoded by the cleanup
DecodeKey ==
    /\ ret = NULL
    /\ ret' = [thumbnailName |-> thumbnailKey(arg) \o Jpg,
               originalPath |-> originalPath(thumbnailKey(arg) \o Jpg)]
    /\ UNCHANGED <<arg, files, thumbs, cacheVars, now, ticks, runs, genState, readyCount,
                   watchEvents, ghostVars, invalidations, storeVars, pureVars, sseVars, writeVars>>

NextKey == DecodeKey
SpecKey == InitKey /\ [][NextKey]_vars

\* C26: for every relative path, also one with characters outside ASCII,
\* with separators, or empty, decoding the name of its thumbnail the way
\* cleanupOrphanedThumbnails does gives the path back; two different paths
\* therefore never have the same key.
C26_KeyRoundTrip ==
    ret # NULL => ret.originalPath = arg

\* the key of a path with a separator, a two-byte and a four-byte character
\* was decoded; the key itself contains '/' or '+'
C26_Witness ==
    /\ ret # NULL
    /\ {47, 233, 128512} \subseteq Range(arg)
    /\ Range(ret.thumbnailName) \cap {43, 47} # {}


(***************************************************************************)
(* The write of a thumbnail seen at the level of the file at thumbnailPath. *)
(* sharp(...).toFile(thumbnailPath) is given the final path: the code has   *)
(* no temporary file, no rename and no removal after a failure.  When the   *)
(* library creates the file, and whether a failed call leaves what it had   *)
(* written, is not decided by src/: both outcomes are taken.                *)
(***************************************************************************)

\* fs.access(thumbnailPath) succeeds
Accessible(p) == p \in thumbs \cup partials

\* what an existence check of the thumbnail of p finds
Check(p) ==
    [path |-> p,
     found |-> Accessible(p),
     complete |-> p \in thumbs,
     pending |-> p \in writing]

\* generateThumbnailFast: fs.access fails and sharp(...).toFile is called; the
\* output file may be created at once or only at the end
StartWrite(p) ==
    /\ p \in files
    /\ p \notin writing
    /\ ~Accessible(p)
    /\ writing' = writing \cup {p}
    /\ \E created \in BOOLEAN :
           partials' = IF created THEN partials \cup {p} ELSE partials
    /\ UNCHANGED <<lastCheck, files, thumbs, cacheVars, now, ticks, runs, genState, readyCount,
                   watchEvents, ghostVars, invalidations, storeVars, pureVars, sseVars, fnVars>>

\* generateThumbnailFast: fs.access succeeds, the URL is returned and nothing
\* is written
SkipWrite(p) ==
    /\ p \in files
    /\ p \notin writing
    /\ Accessible(p)
    /\ lastCheck' = Check(p)
    /\ UNCHANGED <<partials, writing, files, thumbs, cacheVars, now, ticks, runs, genState,
                   readyCount, watchEvents, ghostVars, invalidations, storeVars, pureVars,
                   sseVars, fnVars>>

\* toFile resolved: the file is complete
WriteOk(p) ==
    /\ p \in writing
    /\ writing' = writing \ {p}
    /\ partials' = partials \ {p}
    /\ thumbs' = thumbs \cup {p}
    /\ UNCHANGED <<lastCheck, files, cacheVars, now, ticks, runs, genState, readyCount,
                   watchEvents, ghostVars, invalidations, storeVars, pureVars, sseVars, fnVars>>

\* toFile rejected: nothing in the code removes what was written
WriteFail(p) ==
    /\ p \in writing
    /\ writing' = writing \ {p}
    /\ \E left \in BOOLEAN :
           partials' = IF left THEN partials \cup {p} ELSE partials \ {p}
    /\ UNCHANGED <<lastCheck, files, thumbs, cacheVars, now, ticks, runs, genState, readyCount,
                   watchEvents, ghostVars, invalidations, storeVars, pureVars, sseVars, fnVars>>

\* hasThumbnail(media): the URL when fs.access succeeds, null otherwise
HasThumbnail(p) ==
    /\ p \in files
    /\ lastCheck' = Check(p)
    /\ UNCHANGED <<partials, writing, files, thumbs, cacheVars, now, ticks, runs, genState,
                   readyCount, watchEvents, ghostVars, invalidations, storeVars, pureVars,
                   sseVars, fnVars>>

InitWrite ==
    /\ InitRest
    /\ NoArg
    /\ NoWrite
    /\ files = 1..StoreFiles
    /\ thumbs \in SUBSET {1}
    /\ NoExtras
    /\ NoCall

NextWrite ==
    \E p \in 1..StoreFiles :
        \/ StartWrite(p)
        \/ SkipWrite(p)
        \/ WriteOk(p)
        \/ WriteFail(p)
        \/ HasThumbnail(p)

SpecWrite == InitWrite /\ [][NextWrite]_vars

\* C27: the existence check reports a thumbnail as present only when it is
\* completely written: never while its write is pending, never after its
\* write failed.
C27_ExistsOnlyWhenComplete ==
    (lastCheck # NULL /\ lastCheck.found) => lastCheck.complete


(***************************************************************************)
(* The image route on its own: GET /image/:path for a drawn request    *)
(* path, over a file system that has the scan directory /srv/photos, a    *)
(* sibling directory /srv/photos-private and a file in their parent.      *)
(***************************************************************************)

\* the most segments of a drawn request path
MaxSegments == 3

\* the segments request paths are made of
Segments ==
    {\* ..
     <<46, 46>>,
     \* .
     <<46>>,
     \* a.jpg
     <<97, 46, 106, 112, 103>>,
     \* sub
     <<115, 117, 98>>,
     \* photos-private
     <<112, 104, 111, 116, 111, 115, 45, 112, 114, 105, 118, 97, 116, 101>>,
     \* x.jpg
     <<120, 46, 106, 112, 103>>,
     \* %2E%2E
     <<37, 50, 69, 37, 50, 69>>,
     \* %zz
     <<37, 122, 122>>}

\* the files of the file system
DiskFiles ==
    {\* /srv/photos/a.jpg
     <<47, 115, 114, 118, 47, 112, 104, 111, 116, 111, 115, 47, 97, 46, 106, 112, 103>>,
     \* /srv/photos/sub/a.jpg
     <<47, 115, 114, 118, 47, 112, 104, 111, 116, 111, 115, 47, 115, 117, 98, 47, 97, 46, 106, 112, 103>>,
     \* /srv/photos-private/x.jpg
     <<47, 115, 114, 118, 47, 112, 104, 111, 116, 111, 115, 45, 112, 114, 105, 118, 97, 116, 101, 47, 120, 46, 106, 112, 103>>,
     \* /srv/x.jpg
     <<47, 115, 114, 118, 47, 120, 46, 106, 112, 103>>}

\* the segments joined by "/"
RECURSIVE JoinParts(_)
JoinParts(parts) ==
    IF parts = <<>> THEN <<>>
    ELSE IF Len(parts) = 1 THEN parts[1]
    ELSE parts[1] \o <<Sep>> \o JoinParts(Tail(parts))

\* req.params.path of the drawn requests
RequestPaths == {JoinParts(l) : l \in UNION {[1..n -> Segments] : n \in 0..MaxSegments}}

\* the value of a hexadecimal digit, 16 for any other character
HexValue(c) ==
    IF c \in 48..57 THEN c - 48
    ELSE IF c \in 65..70 THEN c - 55
    ELSE IF c \in 97..102 THEN c - 87
    ELSE 16

\* decodeURIComponent throws URIError: a '%' is not followed by two
\* hexadecimal digits (escapes above %7F do not occur in the drawn requests)
Malformed(str) ==
    \E i \in Positions(str, 37) :
        \/ i + 2 > Len(str)
        \/ HexValue(str[i + 1]) = 16
        \/ HexValue(str[i + 2]) = 16

\* decodeURIComponent of a string that is not malformed
RECURSIVE decodeURIComponent(_)
decodeURIComponent(str) ==
    IF str = <<>> THEN <<>>
    ELSE IF Head(str) = 37
         THEN <<16 * HexValue(str[2]) + HexValue(str[3])>>
                  \o decodeURIComponent(SubSeq(str, 4, Len(str)))
    ELSE <<Head(str)>> \o decodeURIComponent(Tail(str))

\* the segments of a path after normalisation: empty and "." segments are
\* dropped, ".." removes the segment before it
RECURSIVE Normalized(_, _)
Normalized(parts, stack) ==
    IF parts = <<>> THEN stack
    ELSE IF Head(parts) = <<>> \/ Head(parts) = <<Dot>> THEN Normalized(Tail(parts), stack)
    ELSE IF Head(parts) = <<Dot, Dot>>
         THEN Normalized(Tail(parts),
                         IF stack = <<>> THEN stack ELSE SubSeq(stack, 1, Len(stack) - 1))
    ELSE Normalized(Tail(parts), Append(stack, Head(parts)))

\* path.resolve of an absolute path
resolve(p) == <<Sep>> \o JoinParts(Normalized(split(p), <<>>))

\* the test of the route: resolvedPath.startsWith(resolvedScanDir)
Allowed(resolvedPath) == startsWith(resolvedPath, resolve(SCAN_DIR))

\* the answer of GET /image/:path: the status and the file sent
ImageResponse(param) ==
    IF Malformed(param) THEN [status |-> 404, file |-> NULL]
    ELSE LET resolvedPath == resolve(join(SCAN_DIR, decodeURIComponent(param)))
         IN IF ~Allowed(resolvedPath) THEN [status |-> 403, file |-> NULL]
            ELSE IF resolvedPath \in DiskFiles THEN [status |-> 200, file |-> resolvedPath]
            ELSE [status |-> 404, file |-> NULL]

InitImage ==
    /\ InitIdle
    /\ arg \in RequestPaths
    /\ ret = NULL

GetImage ==
    /\ ret = NULL
    /\ ret' = ImageResponse(arg)
    /\ UNCHANGED <<arg, files, thumbs, cacheVars, now, ticks, runs, genState, readyCount,
                   watchEvents, ghostVars, invalidations, storeVars, pureVars, sseVars,
                   writeVars>>

NextImage == GetImage
SpecImage == InitImage /\ [][NextImage]_vars

\* the file a request names
Requested == resolve(join(SCAN_DIR, decodeURIComponent(arg)))

\* the scan directory or a path below it
Inside(p) == p = SCAN_DIR \/ startsWith(p, SCAN_DIR \o <<Sep>>)

\* C29: the image route sends a file only when the file lies inside the scan
\* directory; a request that resolves outside it, a sibling directory whose
\* name starts with the name of the scan directory included, gets status 403
\* and no file.
C29_OnlyInsideScanDir ==
    ret # NULL =>
        /\ ret.status = 200 => Inside(ret.file)
        /\ (~Malformed(arg) /\ ~Inside(Requested)) => (ret.status = 403 /\ ret.file = NULL)


(***************************************************************************)
(* The CLI command 'gallery cleanup'.  'gallery up -d <path>' starts the   *)
(* server with scanDir = <path> and the working directory of the CLI, so   *)
(* the thumbnails lie in <cwd>/.gallery-cache/thumbnails and their names   *)
(* encode paths relative to scanDir.  files are the media files under      *)
(* scanDir; arg tells whether scanDir is the working directory and which   *)
(* of the same relative paths exist under the working directory.           *)
(***************************************************************************)

\* fs.access(path.join(process.cwd(), originalPath)) resolves
CwdSourceExists(path) ==
    \/ path \in {<< >>, <<Dot>>}
    \/ \E p \in arg.cwdFiles : path = relativePath(p)

\* the test of the cleanup command on a directory entry
CliOrphaned(thumbnailFile) ==
    /\ EndsWith(thumbnailFile, Jpg)
    /\ ~CwdSourceExists(originalPath(thumbnailFile))

InitCli ==
    /\ InitRest
    /\ NoWrite
    /\ files \in SUBSET (1..StoreFiles)
    /\ thumbs = 1..StoreFiles
    /\ NoExtras
    /\ NoCall
    /\ arg \in [sameDir : BOOLEAN, cwdFiles : SUBSET (1..StoreFiles)]
    /\ arg.sameDir => arg.cwdFiles = files
    /\ ret = NULL

\* gallery cleanup, run in the working directory the server was started in
CliCleanup ==
    /\ ret = NULL
    /\ thumbs' = {p \in thumbs : ~CliOrphaned(thumbnailName(p))}
    /\ tinys' = {p \in tinys : ~CliOrphaned(tinyName(p))}
    /\ strays' = {name \in strays : ~CliOrphaned(name)}
    /\ ret' = [totalThumbnails |-> Cardinality(thumbs) + Cardinality(tinys)
                                      + Cardinality({name \in strays : EndsWith(name, Jpg)}),
               cleanedCount |-> Cardinality({p \in thumbs : CliOrphaned(thumbnailName(p))})
                                   + Cardinality({p \in tinys : CliOrphaned(tinyName(p))})
                                   + Cardinality({name \in strays : CliOrphaned(name)})]
    /\ UNCHANGED <<arg, files, cacheVars, now, ticks, runs, genState, readyCount,
                   watchEvents, ghostVars, invalidations, cleanups, pureVars, sseVars,
                   writeVars>>

NextCli == CliCleanup
SpecCli == InitCli /\ [][NextCli]_vars

\* C30: after 'gallery cleanup' the thumbnails that remain are exactly those
\* whose source file exists under the directory the server scanned, whether
\* or not that directory is the working directory.
C30_CliCleanupFollowsScanDir ==
    ret # NULL => thumbs = (1..StoreFiles) \cap files


\* the jobs of a run whose generateThumbnailFast call has not returned
Pending(run) == {k \in 1..Len(run.jobs) : run.st[k] \in {"access", "writing"}}

\* the number of the batch job k belongs to, counted from 0
BatchNumber(run, k) == (k - 1) \div BatchSizeFor(Len(run.jobs))

\* C31: within one generation run at most batchSize jobs are pending at any
\* time, and a job of a later batch is started only when every job of the
\* batches before it is in a terminal state.
C31_BoundedBatches ==
    \A r \in 1..Len(runs) :
        /\ Cardinality(Pending(runs[r])) <= BatchSizeFor(Len(runs[r].jobs))
        /\ \A j, k \in 1..Len(runs[r].jobs) :
               (BatchNumber(runs[r], j) < BatchNumber(runs[r], k) /\ runs[r].st[k] # "queued")
                   => runs[r].st[j] \in Terminal

\* the second batch of a run is fully pending, the first one ended with a
\* failure and a success, the third one is still queued
C31_Witness ==
    \E r \in 1..Len(runs) :
        /\ MultiBatch(runs[r])
        /\ runs[r].i = BatchSizeFor(Len(runs[r].jobs))
        /\ Cardinality(Pending(runs[r])) = BatchSizeFor(Len(runs[r].jobs))
        /\ \E j \in 1..runs[r].i : runs[r].st[j] = "failed"
        /\ \E j \in 1..runs[r].i : runs[r].st[j] = "done"
        /\ runs[r].st[Len(runs[r].jobs)] = "queued"


(***************************************************************************)
(* The warm directory with rescans while a generation run is active: the   *)
(* runs overlap and a later run meets the thumbnail an earlier one wrote.  *)
(***************************************************************************)

\* requests and the jobs of their runs; each run has one batch
NextRestart ==
    \/ RequestStep
    \/ JobStep

SpecRestart == InitWarm /\ [][NextRestart]_vars

\* C32: a job that finds its full thumbnail in place when its fs.access is
\* answered writes nothing and publishes no thumbnail_ready event, and is
\* counted as a success; only such a job ends as skipped.
C32_ExistingSkipped ==
    [][\A r \in 1..Len(runs) : \A k \in 1..Len(runs[r].jobs) :
          (runs[r].st[k] = "access" /\ runs'[r].st[k] # "access") =>
              IF runs[r].jobs[k] \in thumbs
              THEN /\ runs'[r].st[k] = "cached"
                   /\ thumbs' = thumbs
                   /\ readyCount' = readyCount
                   /\ runs'[r].processedCount = runs[r].processedCount + 1
                   /\ runs'[r].errorCount = runs[r].errorCount
              ELSE runs'[r].st[k] = "writing"]_vars

\* a later run skipped a file whose thumbnail an earlier run had written, and
\* that thumbnail was announced once
C32_Witness ==
    \E r1, r2 \in 1..Len(runs) : \E k1 \in 1..Len(runs[r1].jobs) :
        \E k2 \in 1..Len(runs[r2].jobs) :
            /\ r1 < r2
            /\ runs[r1].jobs[k1] = runs[r2].jobs[k2]
            /\ runs[r1].st[k1] = "done"
            /\ runs[r2].st[k2] = "cached"
            /\ readyCount[runs[r1].jobs[k1]] = 1
            /\ runs[r2].pc = "done"


(***************************************************************************)
(* Watcher events for files that are not media files.                      *)
(***************************************************************************)

\* the names of such files
OtherNames ==
    {\* notes.txt
     <<110, 111, 116, 101, 115, 46, 116, 120, 116>>,
     \* a.jpg.bak
     <<97, 46, 106, 112, 103, 46, 98, 97, 107>>,
     \* jpg
     <<106, 112, 103>>,
     \* clip.mp3
     <<99, 108, 105, 112, 46, 109, 112, 51>>}

\* a watcher that takes every file for a media file
IsWatchedAny(filePath) == TRUE

\* mediaExtensions.some(ext => filePath.toLowerCase().endsWith(ext))
IsWatchedMedia(filePath) ==
    \E ext \in IMAGE_EXTENSIONS \cup VIDEO_EXTENSIONS : EndsWith(toLowerCase(filePath), ext)

\* chokidar 'add' or 'unlink' for a file of that name: the handler calls
\* invalidateCache only when the name passes the test
WatchFile(name) ==
    /\ watchEvents < MaxWatchEvents
    /\ watchEvents' = watchEvents + 1
    /\ IF IsWatchedMedia(name)
       THEN /\ galleryCache' = Invalidated(galleryCache)
            /\ invalidations' = Published([kind |-> "New file", file |-> 0])
            /\ seen' = {}
       ELSE UNCHANGED <<galleryCache, invalidations, seen>>
    /\ UNCHANGED <<files, thumbs, now, ticks, reqs, refreshes, hits, runs, genState, readyCount,
                   lastReturned, ghostVars, storeVars, pureVars, auxVars>>

\* requests and watcher events of both kinds
NextEvents ==
    \/ RequestStep
    \/ \E p \in WatchedPaths : WatchAdd(p)
    \/ \E p \in WatchedPaths : WatchUnlink(p)
    \/ \E name \in OtherNames : WatchFile(name)

SpecEvents == InitWarm /\ [][NextEvents]_vars

\* C33: a file-watch event leaves the cached snapshot data and its capture
\* time as they were; for an added or removed media file it sets the stale
\* mark and nothing else of the cache, for any other file it changes no cache
\* state and publishes no event.
C33_WatchOnlyInvalidates ==
    [][watchEvents' # watchEvents =>
          /\ galleryCache'.data = galleryCache.data
          /\ galleryCache'.lastScan = galleryCache.lastScan
          /\ reqs' = reqs /\ runs' = runs
          /\ IF files' # files
             THEN /\ galleryCache'.isStale
                  /\ Len(invalidations') = Len(invalidations) + 1
             ELSE /\ galleryCache' = galleryCache
                  /\ invalidations' = invalidations]_vars

\* an event for a file that is not a media file was handled, and the cache
\* holds a snapshot that is not stale: nothing was invalidated
C33_Witness ==
    /\ watchEvents >= 1
    /\ galleryCache.data # NULL
    /\ ~galleryCache.isStale
    /\ invalidations = << >>
    /\ InFlight = {}


\* C34: for every relative path the name of its thumbnail is a single file
\* name: it holds no path separator, so the thumbnail lies directly in
\* THUMBNAILS_DIR, where cleanupOrphanedThumbnails lists it.
C34_KeyIsFileName ==
    ret # NULL => Sep \notin Range(ret.thumbnailName)


\* C35: when a media file was added or removed after the scan of a refresh
\* and before its end, so that the invalidation arrived while the refresh was
\* in flight, the cache is still marked stale when that refresh has returned.
C35_InvalidationNotLost ==
    [][\A s \in 1..MaxInFlight :
          (Returns(s) /\ reqs[s].pc = "check" /\ reqs[s].images # files) =>
              galleryCache'.isStale]_vars


\* C36: the global-progress state last published always has completed <=
\* total and a progress from 0 to 100, and it says isGenerating = false only
\* when no generation run has unfinished jobs, also after a rescan issued
\* while a run was active.
C36_ProgressConsistent ==
    /\ genState.completed <= genState.total
    /\ genState.progress \in 0..100
    /\ (runs # << >> /\ ~genState.isGenerating) => ActiveRuns = {}


\* the jobs that are writing the full thumbnail of p
Writers(p) ==
    {t \in (1..Len(runs)) \X Paths :
        /\ t[2] <= Len(runs[t[1]].jobs)
        /\ runs[t[1]].jobs[t[2]] = p
        /\ runs[t[1]].st[t[2]] = "writing"}

\* C37: for every media file at most one write of its full thumbnail is in
\* progress at any time, and while the file and its thumbnail stay in place
\* the thumbnail is written, and announced, at most once, also when a rescan
\* or an expired cache enqueues the file again before its job has finished.
C37_SingleWriter ==
    \A p \in files :
        /\ Cardinality(Writers(p)) <= 1
        /\ readyCount[p] <= 1

\* a listing without the files whose metadata cannot be read
Statable(listing) == SelectSeq(listing, LAMBDA e : e.kind # "file" \/ e.stat)

\* C38: when reading the metadata of one file of a directory fails during a
\* scan, every other media file of that directory, listed before or after
\* it, is still returned: the scan returns every file of the scan root that
\* it returns when the failing files are not listed at all.
C38_StatFailureSkipsOneFile ==
    ret # NULL =>
        LET others == scanDirectory(SCAN_DIR, Root(Statable(arg)))
        IN \A i \in 1..Len(others) :
               others[i].directory = <<Dot>> => others[i].relativePath \in Scanned

\* ---------------------------------------------------------------- snapshot
\* the relative paths whose thumbnails an earlier session may have stored:
\* b-2.jpg and sub/z-9.gif
StoredPaths == {<<98, 45, 50, 46, 106, 112, 103>>, <<115, 117, 98, 47, 122, 45, 57, 46, 103, 105, 102>>}

\* the files of THUMBNAILS_DIR when the thumbnails of these paths are stored
ThumbnailFiles(stored) == {thumbnailKey(p) \o Jpg : p \in stored}

\* an existence check that never finds the thumbnail
ThumbnailNeverExists(image, existing) == FALSE

\* hasThumbnail(media) resolves to a URL: fs.access finds the thumbnail file
ThumbnailExists(image, existing) == (thumbnailKey(image.relativePath) \o Jpg) \in existing

\* imageData: the descriptor with the outcome of the existence check
ImageData(image, existing) ==
    [name |-> image.name,
     relativePath |-> image.relativePath,
     directory |-> image.directory,
     type |-> image.type,
     thumbnailReady |-> ThumbnailExists(image, existing)]

\* the first pass of getCachedGalleryData over the scanned images, its result
\* and the jobs it hands to generateThumbnailsInBackground
Result(images, existing) ==
    LET pendingThumbnails == SelectSeq(images, LAMBDA image : ~ThumbnailExists(image, existing))
    IN [totalImages |-> Len(images),
        galleries |-> [d \in {images[i].directory : i \in 1..Len(images)} |->
                          [i \in 1..Len(Group(images, d)) |->
                              ImageData(Group(images, d)[i], existing)]],
        pendingThumbnails |-> Len(pendingThumbnails),
        jobs |-> IF Len(pendingThumbnails) > 0 THEN SortJobs(pendingThumbnails) ELSE <<>>]

InitSnapshot ==
    /\ InitIdle
    /\ arg \in [listing : Listings, stored : SUBSET StoredPaths]
    /\ ret = NULL

\* a refresh: the tree is scanned, each image checked for its thumbnail and
\* the snapshot built
Refresh ==
    /\ ret = NULL
    /\ ret' = Result(scanDirectory(SCAN_DIR, Root(arg.listing)), ThumbnailFiles(arg.stored))
    /\ UNCHANGED <<arg, files, thumbs, cacheVars, now, ticks, runs, genState, readyCount,
                   watchEvents, ghostVars, invalidations, storeVars, pureVars, sseVars, writeVars>>

NextSnapshot == Refresh
SpecSnapshot == InitSnapshot /\ [][NextSnapshot]_vars

RECURSIVE SumOfSizes(_, _)
SumOfSizes(galleries, dirs) ==
    IF dirs = {} THEN 0
    ELSE LET d == CHOOSE x \in dirs : TRUE
         IN Len(galleries[d]) + SumOfSizes(galleries, dirs \ {d})

\* C39: in every snapshot built by a refresh, totalImages is the sum of the
\* sizes of the directory groups, every item is in the group named by its
\* own directory, an item is flagged thumbnailReady exactly when its
\* thumbnail existed at the existence check, and pendingThumbnails is both
\* the number of items not flagged and the number of jobs handed to the
\* scheduler.
C39_SnapshotConsistent ==
    ret # NULL =>
        LET galleries == ret.galleries
            items == UNION {{<<d, i>> : i \in 1..Len(galleries[d])} : d \in DOMAIN galleries}
            unready == {x \in items : ~galleries[x[1]][x[2]].thumbnailReady}
        IN /\ ret.totalImages = SumOfSizes(galleries, DOMAIN galleries)
           /\ \A x \in items : galleries[x[1]][x[2]].directory = x[1]
           /\ \A x \in items :
                  galleries[x[1]][x[2]].thumbnailReady <=>
                      galleries[x[1]][x[2]].relativePath \in arg.stored
           /\ ret.pendingThumbnails = Cardinality(unready)
           /\ ret.pendingThumbnails = Len(ret.jobs)

\* a snapshot of two groups with a stored thumbnail and a pending one
C39_Witness ==
    /\ ret # NULL
    /\ Cardinality(DOMAIN ret.galleries) >= 2
    /\ ret.pendingThumbnails > 0
    /\ ret.pendingThumbnails < ret.totalImages

====
